---- MODULE Spec2Model ----
(***************************************************************************)
(* Optimistic message delivery of the chat client: the useMessages hook    *)
(* (visible list, optimistic send, automatic retry, change-feed merge,     *)
(* initial load) driven by the ChatView component (composer, tap to        *)
(* retry), against the row store and its insert change feed.               *)
(*                                                                         *)
(* Strings are modelled as sequences of tokens so that trim, startsWith,   *)
(* includes and the anchored regex replace are computed, not assumed.      *)
(* An identifier is [pre, n]: pre is the sequence of literal prefixes      *)
(* ("temp-", "failed-") and n stands for the unique remainder (the         *)
(* Date.now()/Math.random() part, or the server UUID).                     *)
(*                                                                         *)
(* The typing hook (useTyping) and the presence hook (usePresence) with    *)
(* the presence table have their own variables and specifications; time    *)
(* there is a clock in milliseconds that advances by TickMs once every     *)
(* due timer has run.                                                      *)
(***************************************************************************)
EXTENDS Integers, Sequences, FiniteSets, TLC

\* ---------------------------------------------------------------- bounds
MaxSends == 2
MaxRemote == 1
MaxFeedRows == 3
MaxRedeliver == 1
TickMs == 250
MaxTimeMs == 4000
MaxTimers == 2
MaxCalls == 2
MaxReturns == 2
MaxChanges == 2
MaxStored == 2
MaxRefused == 2
MaxChatRows == 3
MaxTypers == 3
MaxSubscribes == 4
MaxPresenceChanges == 2
MaxCreates == 2
MaxDirectChats == 3
MaxToggles == 3
MaxPeerReactions == 1

\* ------------------------------------------------------ program constants
RetryDelayMs == 2000
FetchLimit == 50
FallbackLimit == 30
ExpiryMs == 3000
ThrottleMs == 500
IdleMs == 1000

Me == "me"
Other == "other"

\* the conversation opened first and the one the user switches to
ChatA == "chatA"
ChatB == "chatB"

Space == " "
ComposerInputs == {<<"yo", Space>>}
RemoteContents == {<<"yo">>}
ChatContents == {<<"yo">>, <<"ok">>}

\* the three markers; the first token stands for the emoji and its space
FailedMarker == <<"(cross) ", "Failed to send: ">>
RetryingMarker == <<"(arrows) ", "Retrying: ">>
PermanentMarker == <<"(skull) ", "Failed permanently: ">>

VARIABLES
    messages,   \* useMessages: the visible list (React state)
    loading,    \* useMessages: loading flag
    fetch,      \* fetchMessages: position and the rows its query returned
    sends,      \* one record per sendMessage call
    nextSend,   \* number of sendMessage calls made so far
    isSending,  \* ChatView: composer busy flag
    rows,       \* the store's messages table, in insertion order
    notif,      \* per row: where its INSERT notification is
    remotes,    \* rows inserted by other clients so far
    chatId,     \* Layout: the open conversation (useMessages' argument)
    stale,      \* fetchMessages of the superseded conversation, in flight
    now,        \* Date.now(), in milliseconds
    typingUsers,       \* useTyping: the typing set (an array of user ids)
    expiryTimers,      \* useTyping: pending 3000 ms timers, oldest first
    peerLog,           \* per peer: what its typing signals did so far
    isTyping,          \* useTyping: isTyping state
    typingTimeout,     \* useTyping: typingTimeoutRef (due time, 0 = null)
    armed,             \* idle timers set and neither run nor cleared
    lastTypingSignal,  \* useTyping: lastTypingSignalRef
    outLog,            \* what the outgoing typing signals did so far
    user_presence,     \* the presence table, in insertion order
    calls,             \* update_user_presence calls of this client in flight
    mounted,           \* usePresence instances whose effect is set up
    hidden,            \* document.hidden
    lastApplied,       \* per user: status of the call applied last
    user,              \* useMessages: the user of its useAuth instance
    callLog,           \* the sendMessage calls made so far, and the last one
    deleted,           \* the store: numbers of the message rows deleted
    changes,           \* UPDATE and DELETE notifications, and their handling
    participants,      \* the store: chats.participants of each conversation
    inserts,           \* the INSERTs of authenticated principals, and the last
    chats,             \* useChats: the conversation list (React state)
    chatNotif,         \* per row: where its INSERT notification to useChats is
    chatsFetch,        \* fetchChats: position and the rows its query returned
    profile,           \* useAuth: the local profile (its username)
    usernames,         \* the store: users.username of each user
    updateOp,          \* updateProfile: the call in progress or made last
    typingProp,        \* TypingIndicator: the typingUsers prop
    indicator,         \* TypingIndicator: what it rendered last
    view,              \* ChatView's useMessages: mounted, chatId prop, user
    channels,          \* the channels made by subscribeToMessages, in order
    effect,            \* the handle the current effect's cleanup releases
    presenceStore,     \* user_presence with updated_at, per user
    presenceData,      \* usePresence: the local presence map
    presenceFetch,     \* fetchPresence: position and the rows it read
    presenceEvents,    \* presence notifications not yet handled, in order
    peer,              \* the hook's outbound state in a peer's client
    chatTable,         \* the store: the chats rows made by createChat
    createCalls,       \* per client: its createChat call and what it returned
    reactionStore,     \* the store: message_reactions of the message
    reactions,         \* useMessageReactions: the local reaction list
    reactionOps,       \* insert and delete requests of toggleReaction in flight
    reactionReads,     \* notifications pending and refetches in flight
    toggleLog          \* per emoji: the toggleReaction calls made so far

msgVars == <<messages, loading, fetch, sends, nextSend, isSending, rows,
             notif, remotes>>
switchVars == <<chatId, stale>>
typingInVars == <<typingUsers, expiryTimers, peerLog>>
typingOutVars == <<isTyping, typingTimeout, armed, lastTypingSignal, outLog>>
presenceVars == <<user_presence, calls, mounted, hidden, lastApplied>>

guardVars == <<user, callLog>>

\* what neither the message hook's actions nor the typing and presence
\* hooks touch
feedVars == <<deleted, changes>>
policyVars == <<participants, inserts>>
chatsVars == <<chats, chatNotif, chatsFetch>>
profileVars == <<profile, usernames, updateOp>>
indicatorVars == <<typingProp, indicator>>
viewVars == <<view, channels, effect>>
mapVars == <<presenceStore, presenceData, presenceFetch, presenceEvents>>
peerVars == <<peer>>
createVars == <<chatTable, createCalls>>
reactionVars == <<reactionStore, reactions, reactionOps, reactionReads,
                  toggleLog>>
otherVars == <<guardVars, feedVars, policyVars, chatsVars, profileVars,
               indicatorVars, viewVars, mapVars, peerVars, createVars, reactionVars>>

notGuard ==
    <<feedVars, policyVars, chatsVars, profileVars, indicatorVars,
      viewVars, mapVars, peerVars, createVars, reactionVars>>
notFeed ==
    <<guardVars, policyVars, chatsVars, profileVars, indicatorVars,
      viewVars, mapVars, peerVars, createVars, reactionVars>>
notPolicy ==
    <<guardVars, feedVars, chatsVars, profileVars, indicatorVars,
      viewVars, mapVars, peerVars, createVars, reactionVars>>
notChats ==
    <<guardVars, feedVars, policyVars, profileVars, indicatorVars,
      viewVars, mapVars, peerVars, createVars, reactionVars>>
notProfile ==
    <<guardVars, feedVars, policyVars, chatsVars, indicatorVars,
      viewVars, mapVars, peerVars, createVars, reactionVars>>
notIndicator ==
    <<guardVars, feedVars, policyVars, chatsVars, profileVars, viewVars,
      mapVars, peerVars, createVars, reactionVars>>
notView ==
    <<guardVars, feedVars, policyVars, chatsVars, profileVars, indicatorVars,
      mapVars, peerVars, createVars, reactionVars>>
notMap ==
    <<guardVars, feedVars, policyVars, chatsVars, profileVars, indicatorVars,
      viewVars, peerVars, createVars, reactionVars>>
notPeer ==
    <<guardVars, feedVars, policyVars, chatsVars, profileVars, indicatorVars,
      viewVars, mapVars, createVars, reactionVars>>
notCreate ==
    <<guardVars, feedVars, policyVars, chatsVars, profileVars, indicatorVars,
      viewVars, mapVars, peerVars, reactionVars>>
notReaction ==
    <<guardVars, feedVars, policyVars, chatsVars, profileVars, indicatorVars,
      viewVars, mapVars, peerVars, createVars>>

vars == <<msgVars, switchVars, now, typingInVars, typingOutVars,
          presenceVars, otherVars>>

\* what the message hook and its store never touch
hookVars == <<now, typingInVars, typingOutVars, presenceVars>>
notMessages == <<hookVars, otherVars>>

\* ------------------------------------------------------- string helpers
RECURSIVE TrimStart(_)
TrimStart(s) ==
    IF s # <<>> /\ Head(s) = Space THEN TrimStart(Tail(s)) ELSE s

RECURSIVE TrimEnd(_)
TrimEnd(s) ==
    IF s # <<>> /\ s[Len(s)] = Space THEN TrimEnd(SubSeq(s, 1, Len(s) - 1))
    ELSE s

Trim(s) == TrimEnd(TrimStart(s))

Includes(s, tok) == \E i \in DOMAIN s : s[i] = tok

StartsWith(s, tok) == s # <<>> /\ s[1] = tok

\* message.content.replace(/^(Failed to send: |Failed permanently: )/, '')
StripFailurePrefix(content) ==
    IF StartsWith(content, "Failed to send: ")
       \/ StartsWith(content, "Failed permanently: ")
    THEN Tail(content)
    ELSE content

\* ----------------------------------------------------------- identifiers
OptimisticId(s) == [pre |-> <<"temp-">>, n |-> s]
FailedId(optimisticId) ==
    [pre |-> <<"failed-">> \o optimisticId.pre, n |-> optimisticId.n]
ServerId(k) == [pre |-> <<>>, n |-> k]

\* error.message of the errors a create request can end with
ErrorKinds == {"clientTimeout", "stmtTimeout", "network", "auth"}
ErrorMessage(kind) ==
    CASE kind = "clientTimeout" -> <<"Message send ", "timeout">>
      [] kind = "stmtTimeout" ->
            <<"canceling statement due to statement ", "timeout">>
      [] kind = "network" -> <<"TypeError: ", "Failed to fetch">>
      [] kind = "auth" -> <<"new row violates row-level security policy">>

\* ------------------------------------------------------- list operations
MapList(list, F(_)) == [i \in DOMAIN list |-> F(list[i])]

Ids(list) == {list[i].id : i \in DOMAIN list}

IsOptimisticMatch(msg, row) ==
    /\ StartsWith(msg.id.pre, "temp-")
    /\ msg.content = row.content
    /\ msg.sender_id = row.sender_id

MergeInsertList(prev, row) ==
    LET Keep(msg) == ~IsOptimisticMatch(msg, row)
        filteredPrev == SelectSeq(prev, Keep)
        exists == \E i \in DOMAIN filteredPrev : filteredPrev[i].id = row.id
    IN  IF exists THEN filteredPrev ELSE Append(filteredPrev, row)

ReplaceById(prev, id, row) ==
    LET F(msg) == IF msg.id = id THEN row ELSE msg
    IN  MapList(prev, F)

MarkFailed(prev, optimisticId, trimmedContent) ==
    LET F(msg) == IF msg.id = optimisticId
                  THEN [msg EXCEPT !.id = FailedId(optimisticId),
                                   !.content = FailedMarker \o trimmedContent]
                  ELSE msg
    IN  MapList(prev, F)

MarkRetrying(prev, failedId, content) ==
    LET F(msg) == IF msg.id = failedId
                  THEN [msg EXCEPT !.content = RetryingMarker \o content]
                  ELSE msg
    IN  MapList(prev, F)

MarkPermanent(prev, failedId, content) ==
    LET F(msg) == IF msg.id = failedId
                  THEN [msg EXCEPT !.content = PermanentMarker \o content]
                  ELSE msg
    IN  MapList(prev, F)

\* .order('created_at', desc).limit(n) then .reverse(): the n newest rows,
\* oldest first (rows is kept in insertion, hence creation, order)
NewestRows(table, n) ==
    IF Len(table) <= n THEN table
    ELSE SubSeq(table, Len(table) - n + 1, Len(table))

\* ------------------------------------------------------------- the store
\* Time is counted in row insertions: the k-th row is created at 2k, and a
\* client reading its clock after k insertions reads 2k + 1.
ServerNow(k) == 2 * k
ClientNow == 2 * Len(rows) + 1

NewRow(chat, sender, content) ==
    [id |-> ServerId(Len(rows) + 1), chat_id |-> chat, sender_id |-> sender,
     content |-> content, created_at |-> ServerNow(Len(rows) + 1)]

\* the feed notifies the client of the rows of the conversation it is
\* subscribed to (filter chat_id=eq.chatId)
InsertRow(chat, sender, content) ==
    /\ rows' = Append(rows, NewRow(chat, sender, content))
    /\ notif' = Append(notif, IF chat = chatId THEN "pending" ELSE "none")

\* .select('id, content, created_at, sender_id, type, mood')
Selected(row) ==
    [id |-> row.id, sender_id |-> row.sender_id, content |-> row.content,
     created_at |-> row.created_at]

\* .eq('chat_id', chat).order('created_at', desc).limit(n), reversed
QueryRows(chat, n) ==
    LET InChat(row) == row.chat_id = chat
    IN  MapList(NewestRows(SelectSeq(rows, InChat), n), Selected)

\* promise: the promise sendMessage returned; task: the promise of the
\* retryMessage call made by the retry timer; denied: the first request
\* was refused by the insert policy
NoSend == [pc |-> "unused", chat |-> ChatA, content |-> <<>>,
           src |-> "none", reqs |-> 0, req |-> "none", row |-> 0,
           timer |-> 0, promise |-> "none", task |-> "none",
           denied |-> FALSE]

NoLoad == [pc |-> "done", data |-> <<>>, chat |-> ChatA]

\* --------------------------------------- the other hooks, before any event
Peers == {"p1", "p2"}
Users == {Me} \cup Peers
PresenceStatuses == {"online", "offline", "away", "busy"}
Instances == {"Layout", "ChatView"}
\* the users whose presence changes: this client's and one other
Announcers == {Me, "p1"}

NoPeerLog == [addedAt |-> -1, later |-> FALSE, lastKind |-> "none",
              lastTrueAt |-> -1]

NoOutLog == [prevTrue |-> -1, lastTrue |-> -1, lastKey |-> -1,
             stopSince |-> FALSE, falseSince |-> 0, announced |-> FALSE]

\* Date.now() is far beyond the throttle window when the hook is mounted,
\* so the initial lastTypingSignalRef (0) never throttles the first signal
TypingIdle ==
    /\ now = ThrottleMs
    /\ typingUsers = <<>>
    /\ expiryTimers = <<>>
    /\ peerLog = [p \in Peers |-> NoPeerLog]
    /\ isTyping = FALSE
    /\ typingTimeout = 0
    /\ armed = {}
    /\ lastTypingSignal = 0
    /\ outLog = NoOutLog

NoCalls == [st \in PresenceStatuses |-> 0]

NoUser == "null"
NoChat == "null"

NoCall == [n |-> 0, returned |-> 0, content |-> <<>>, chat |-> NoChat,
           user |-> NoUser]

\* the session is known and no sendMessage call was made yet
\* no row was updated or deleted
FeedIdle ==
    /\ deleted = {}
    /\ changes = <<>>

NoInsert == [n |-> 0, refused |-> 0, by |-> NoUser, chat |-> NoChat,
             sender |-> NoUser, accepted |-> FALSE]

\* both conversations are between the user and a peer
PolicyIdle ==
    /\ participants = [c \in {ChatA, ChatB} |-> {Me, "p1"}]
    /\ inserts = NoInsert

\* ---------------------------------------------------------------- chats
\* the chats table: a conversation's row as its trigger keeps it, that is
\* last_message and updated_at of the newest message of the conversation
\* (update_chat_last_message), or as created
ChatCreatedAt(chat) == IF chat = ChatA THEN -2 ELSE -1

RECURSIVE LastRowOf(_, _)
LastRowOf(table, chat) ==
    IF table = <<>> THEN 0
    ELSE IF table[Len(table)].chat_id = chat THEN Len(table)
    ELSE LastRowOf(SubSeq(table, 1, Len(table) - 1), chat)

ChatRow(chat) ==
    LET k == LastRowOf(rows, chat)
    IN  IF k = 0
        THEN [id |-> chat, last_message |-> <<>>,
              updated_at |-> ChatCreatedAt(chat)]
        ELSE [id |-> chat, last_message |-> rows[k].content,
              updated_at |-> rows[k].created_at]

\* Array.prototype.sort with (a, b) => time(b.updated_at) - time(a.updated_at):
\* stable, newest first
RECURSIVE InsertByUpdatedAt(_, _)
InsertByUpdatedAt(sorted, x) ==
    IF sorted = <<>> THEN <<x>>
    ELSE IF Head(sorted).updated_at >= x.updated_at
         THEN <<Head(sorted)>> \o InsertByUpdatedAt(Tail(sorted), x)
         ELSE <<x>> \o sorted

RECURSIVE SortByUpdatedAt(_)
SortByUpdatedAt(list) ==
    IF list = <<>> THEN <<>>
    ELSE InsertByUpdatedAt(SortByUpdatedAt(SubSeq(list, 1, Len(list) - 1)),
                           list[Len(list)])

\* .contains('participants', [user.id]).order('updated_at', desc)
QueryChats ==
    LET mine == {c \in {ChatA, ChatB} : user \in participants[c]}
        both == <<ChatRow(ChatA), ChatRow(ChatB)>>
        Mine(row) == row.id \in mine
    IN  SortByUpdatedAt(SelectSeq(both, Mine))

NoChatsFetch == [pc |-> "done", data |-> <<>>]

\* the list as the first fetchChats left it, nothing in flight
ChatsIdle ==
    /\ chats = <<[id |-> ChatB, last_message |-> <<>>,
                  updated_at |-> ChatCreatedAt(ChatB)],
                 [id |-> ChatA, last_message |-> <<>>,
                  updated_at |-> ChatCreatedAt(ChatA)]>>
    /\ chatNotif = <<>>
    /\ chatsFetch = NoChatsFetch

\* -------------------------------------------------------------- profile
\* the users with an account
Writers == {Me, "p1"}

Usernames == {"ann", "bob", "cat"}

NoUpdate == [pc |-> "idle", name |-> "", held |-> FALSE, reqs |-> 0,
             before |-> "", req |-> "none"]

\* the profile is loaded and is what the store holds
ProfileIdle ==
    /\ profile = "ann"
    /\ usernames = [u \in Writers |-> IF u = Me THEN "ann" ELSE "bob"]
    /\ updateOp = NoUpdate

\* ------------------------------------------------------ typing indicator
\* the users whose typing signals arrive, with the user_name they carry
Typers ==
    {[id |-> "p1", name |-> "Ann"], [id |-> "p2", name |-> "Bob"],
     [id |-> "p3", name |-> "Cy"], [id |-> "p4", name |-> "Dee"],
     [id |-> "p5", name |-> "Eve"]}

Unrendered == "unrendered"
Nothing == "null"

IndicatorIdle ==
    /\ typingProp = <<>>
    /\ indicator = Unrendered

\* ------------------------------------------- the view's subscription
\* no handle: the effect returned no cleanup
NoHandle == 0

\* no conversation selected: ChatView is not rendered
ViewIdle ==
    /\ view = [mounted |-> FALSE, chatId |-> NoChat, user |-> NoUser]
    /\ channels = <<>>
    /\ effect = NoHandle

\* ------------------------------------------------ the presence map
\* no entry: presenceData[userId] is undefined
NoPresence == [status |-> "none", updated_at |-> -1]

\* the hook's effect has not run; the migration gave every user an
\* 'offline' row
MapIdle ==
    /\ presenceStore = [u \in Announcers |->
                           [status |-> "offline", updated_at |-> 0]]
    /\ presenceData = [u \in Announcers |-> NoPresence]
    /\ presenceFetch = [pc |-> "idle", data |-> <<>>]
    /\ presenceEvents = <<>>

\* ------------------------------------------------ a peer's composer
\* the peer's hook before any keystroke; typingTimeout -1: no timer set
PeerIdle ==
    peer = [isTyping |-> FALSE, lastTypingSignal |-> 0, typingTimeout |-> -1,
            announced |-> FALSE]

\* ------------------------------------------------ direct conversations
\* the clients that call createChat
Creators == {Me, "p1"}

\* a conversation's id is its row's position in the table; 0 is null
NoCreate == [pc |-> "idle", other |-> NoUser, result |-> 0, n |-> 0]

\* no direct conversation yet and no createChat call made
CreateIdle ==
    /\ chatTable = <<>>
    /\ createCalls = [u \in Creators |-> NoCreate]

\* ---------------------------------------------------- message reactions
\* two of the seven values of reaction_type
Emojis == {"(thumbsup)", "(heart)"}

\* before: whether the user's reaction was stored when the first call was made
NoToggle == [n |-> 0, before |-> FALSE]

\* the message has no reaction and the hook has fetched that
ReactionIdle ==
    /\ reactionStore = <<>>
    /\ reactions = <<>>
    /\ reactionOps = <<>>
    /\ reactionReads = [pending |-> 0, inFlight |-> 0]
    /\ toggleLog = [e \in Emojis |-> NoToggle]

\* everything but the typing indicator
RestIdle ==
    /\ user = Me
    /\ callLog = NoCall
    /\ FeedIdle
    /\ PolicyIdle
    /\ ChatsIdle
    /\ ProfileIdle
    /\ ViewIdle
    /\ MapIdle
    /\ PeerIdle
    /\ CreateIdle
    /\ ReactionIdle

OthersIdle ==
    /\ RestIdle
    /\ IndicatorIdle

\* n counts the announcements applied for the user, up to two
NoAnnouncement == [status |-> "none", n |-> 0]

PresenceIdle ==
    /\ user_presence = <<>>
    /\ calls = NoCalls
    /\ mounted = {}
    /\ hidden = FALSE
    /\ lastApplied = [u \in Users |-> NoAnnouncement]

Init ==
    /\ messages = <<>>
    /\ loading = TRUE
    /\ rows = <<>>
    /\ notif = <<>>
    /\ fetch = [pc |-> "query", data |-> <<>>]
    /\ sends = [s \in 1..MaxSends |-> NoSend]
    /\ nextSend = 0
    /\ isSending = FALSE
    /\ remotes = 0
    /\ chatId = ChatA
    /\ stale = NoLoad
    /\ TypingIdle
    /\ PresenceIdle
    /\ OthersIdle

\* an empty conversation whose load has completed
LoadedChat ==
    /\ messages = <<>>
    /\ loading = FALSE
    /\ rows = <<>>
    /\ notif = <<>>
    /\ fetch = [pc |-> "done", data |-> <<>>]
    /\ sends = [s \in 1..MaxSends |-> NoSend]
    /\ nextSend = 0
    /\ isSending = FALSE
    /\ remotes = 0
    /\ chatId = ChatA
    /\ stale = NoLoad
    /\ TypingIdle
    /\ PresenceIdle

InitLoaded ==
    /\ LoadedChat
    /\ OthersIdle

\* ------------------------------------------------------- fetchMessages
FetchErrorMessage(kind) ==
    IF kind = "clientTimeout" THEN <<"Query ", "timeout">>
    ELSE ErrorMessage(kind)

FetchFinish(list) ==
    /\ messages' = list
    /\ loading' = FALSE
    /\ fetch' = [pc |-> "done", data |-> <<>>]

\* the primary query returns its rows
FetchQueryDone ==
    /\ fetch.pc = "query"
    /\ LET data == QueryRows(chatId, FetchLimit)
       IN  IF Len(data) > 0
           THEN /\ fetch' = [pc |-> "senders", data |-> data]
                /\ UNCHANGED <<messages, loading>>
           ELSE FetchFinish(<<>>)
    /\ UNCHANGED <<sends, nextSend, isSending, rows, notif, remotes>>
    /\ UNCHANGED <<switchVars, notMessages>>

\* the sender lookup returns: the snapshot replaces the list
FetchSendersDone ==
    /\ fetch.pc \in {"senders", "fallbackSenders"}
    /\ FetchFinish(fetch.data)
    /\ UNCHANGED <<sends, nextSend, isSending, rows, notif, remotes>>
    /\ UNCHANGED <<switchVars, notMessages>>

\* the primary query ends with an error value or loses the race
FetchQueryError(kind) ==
    /\ fetch.pc = "query"
    /\ IF Includes(FetchErrorMessage(kind), "timeout")
       THEN /\ fetch' = [pc |-> "fallback", data |-> <<>>]
            /\ UNCHANGED <<messages, loading>>
       ELSE FetchFinish(<<>>)
    /\ UNCHANGED <<sends, nextSend, isSending, rows, notif, remotes>>
    /\ UNCHANGED <<switchVars, notMessages>>

FetchFallbackDone ==
    /\ fetch.pc = "fallback"
    /\ LET simpleData == QueryRows(chatId, FallbackLimit)
       IN  IF Len(simpleData) > 0
           THEN /\ fetch' = [pc |-> "fallbackSenders", data |-> simpleData]
                /\ UNCHANGED <<messages, loading>>
           ELSE FetchFinish(<<>>)
    /\ UNCHANGED <<sends, nextSend, isSending, rows, notif, remotes>>
    /\ UNCHANGED <<switchVars, notMessages>>

FetchFallbackError ==
    /\ fetch.pc = "fallback"
    /\ FetchFinish(<<>>)
    /\ UNCHANGED <<sends, nextSend, isSending, rows, notif, remotes>>
    /\ UNCHANGED <<switchVars, notMessages>>

\* the other hooks idle, the conversation loaded, and the presence table as
\* the migration leaves it: an 'offline' row for each user that existed
PresenceRow(uid, status) == [user_id |-> uid, status |-> status]

MigratedTables ==
    {<<>>,
     <<PresenceRow(Me, "offline")>>,
     <<PresenceRow("p1", "offline"), PresenceRow(Me, "offline")>>}

InitPresence ==
    /\ messages = <<>>
    /\ loading = FALSE
    /\ rows = <<>>
    /\ notif = <<>>
    /\ fetch = [pc |-> "done", data |-> <<>>]
    /\ sends = [s \in 1..MaxSends |-> NoSend]
    /\ nextSend = 0
    /\ isSending = FALSE
    /\ remotes = 0
    /\ chatId = ChatA
    /\ stale = NoLoad
    /\ TypingIdle
    /\ user_presence \in MigratedTables
    /\ calls = NoCalls
    /\ mounted = {}
    /\ hidden = FALSE
    /\ lastApplied = [u \in Users |-> NoAnnouncement]
    /\ OthersIdle

\* the hook right after its first render: useAuth's user is still null, or
\* the hook was given no conversation; the effect's else branch has run
InitUnready ==
    /\ messages = <<>>
    /\ loading = FALSE
    /\ rows = <<>>
    /\ notif = <<>>
    /\ fetch = [pc |-> "done", data |-> <<>>]
    /\ sends = [s \in 1..MaxSends |-> NoSend]
    /\ nextSend = 0
    /\ isSending = FALSE
    /\ remotes = 0
    /\ chatId \in {ChatA, NoChat}
    /\ stale = NoLoad
    /\ TypingIdle
    /\ PresenceIdle
    /\ user = NoUser
    /\ callLog = NoCall
    /\ FeedIdle
    /\ PolicyIdle
    /\ ChatsIdle
    /\ ProfileIdle
    /\ ViewIdle
    /\ MapIdle
    /\ PeerIdle
    /\ CreateIdle
    /\ ReactionIdle
    /\ IndicatorIdle

\* the tables with one conversation, between the user and a peer; the
\* other conversation has no row in chats yet
InitPolicy ==
    /\ messages = <<>>
    /\ loading = FALSE
    /\ rows = <<>>
    /\ notif = <<>>
    /\ fetch = [pc |-> "done", data |-> <<>>]
    /\ sends = [s \in 1..MaxSends |-> NoSend]
    /\ nextSend = 0
    /\ isSending = FALSE
    /\ remotes = 0
    /\ chatId = ChatA
    /\ stale = NoLoad
    /\ TypingIdle
    /\ PresenceIdle
    /\ user = Me
    /\ callLog = NoCall
    /\ FeedIdle
    /\ participants = [c \in {ChatA, ChatB} |->
                          IF c = ChatA THEN {Me, "p1"} ELSE {}]
    /\ inserts = NoInsert
    /\ ChatsIdle
    /\ ProfileIdle
    /\ ViewIdle
    /\ MapIdle
    /\ PeerIdle
    /\ CreateIdle
    /\ ReactionIdle
    /\ IndicatorIdle

\* ------------------------------------------ the conversation is switched
\* Layout selects another conversation: ChatView stays mounted, the effect
\* on chatId runs its cleanup (unsubscribe) and then clears the list, sets
\* loading, starts the load of the new conversation and subscribes to it.
\* The load of the old conversation, the INSERT handlers already reading
\* their row and the create requests in flight are not cancelled.
SwitchChat ==
    /\ chatId = ChatA
    /\ chatId' = ChatB
    /\ messages' = <<>>
    /\ loading' = TRUE
    /\ stale' = [pc |-> fetch.pc, data |-> fetch.data, chat |-> chatId]
    /\ fetch' = [pc |-> "query", data |-> <<>>]
    /\ UNCHANGED <<sends, nextSend, isSending, rows, notif, remotes>>
    /\ UNCHANGED notMessages

\* fetchMessages of the superseded conversation runs on: same code, with
\* the chatId of its closure
StaleFinish(list) ==
    /\ messages' = list
    /\ loading' = FALSE
    /\ stale' = [stale EXCEPT !.pc = "done", !.data = <<>>]

StaleQueryDone ==
    /\ stale.pc = "query"
    /\ LET data == QueryRows(stale.chat, FetchLimit)
       IN  IF Len(data) > 0
           THEN /\ stale' = [stale EXCEPT !.pc = "senders", !.data = data]
                /\ UNCHANGED <<messages, loading>>
           ELSE StaleFinish(<<>>)
    /\ UNCHANGED <<fetch, sends, nextSend, isSending, rows, notif, remotes>>
    /\ UNCHANGED <<chatId, notMessages>>

StaleSendersDone ==
    /\ stale.pc \in {"senders", "fallbackSenders"}
    /\ StaleFinish(stale.data)
    /\ UNCHANGED <<fetch, sends, nextSend, isSending, rows, notif, remotes>>
    /\ UNCHANGED <<chatId, notMessages>>

StaleQueryError(kind) ==
    /\ stale.pc = "query"
    /\ IF Includes(FetchErrorMessage(kind), "timeout")
       THEN /\ stale' = [stale EXCEPT !.pc = "fallback"]
            /\ UNCHANGED <<messages, loading>>
       ELSE StaleFinish(<<>>)
    /\ UNCHANGED <<fetch, sends, nextSend, isSending, rows, notif, remotes>>
    /\ UNCHANGED <<chatId, notMessages>>

StaleFallbackDone ==
    /\ stale.pc = "fallback"
    /\ LET simpleData == QueryRows(stale.chat, FallbackLimit)
       IN  IF Len(simpleData) > 0
           THEN /\ stale' = [stale EXCEPT !.pc = "fallbackSenders",
                                          !.data = simpleData]
                /\ UNCHANGED <<messages, loading>>
           ELSE StaleFinish(<<>>)
    /\ UNCHANGED <<fetch, sends, nextSend, isSending, rows, notif, remotes>>
    /\ UNCHANGED <<chatId, notMessages>>

StaleFallbackError ==
    /\ stale.pc = "fallback"
    /\ StaleFinish(<<>>)
    /\ UNCHANGED <<fetch, sends, nextSend, isSending, rows, notif, remotes>>
    /\ UNCHANGED <<chatId, notMessages>>

\* --------------------------------------------------------- sendMessage
\* an async function's promise once its body has ended
AsyncResult(bodyThrows) == IF bodyThrows THEN "rejected" ELSE "fulfilled"

\* a catch block that hands on the errors it schedules no retry for
SendCatchRethrows(kind) == ~Includes(ErrorMessage(kind), "timeout")

\* sendMessage's catch block: two statements, neither throws (the error
\* caught is an object, so error.message?.includes(...) is evaluated)
SendCatchThrows(kind) == FALSE

\* retryMessage's catch block: one setMessages call
RetryCatchThrows(kind) == FALSE

\* a guard that tests the content as given
SendGuardUntrimmed(content) ==
    chatId # NoChat /\ user # NoUser /\ content # <<>>

\* the negation of (!chatId || !user || !content.trim())
SendGuard(content) ==
    chatId # NoChat /\ user # NoUser /\ Trim(content) # <<>>

\* the synchronous part: guard, optimistic entry, create request issued
SendMessage(content, src) ==
    /\ SendGuard(content)
    /\ nextSend < MaxSends
    /\ LET s == nextSend + 1
           trimmedContent == Trim(content)
           optimisticMessage ==
               [id |-> OptimisticId(s), chat_id |-> chatId, sender_id |-> user,
                content |-> trimmedContent, created_at |-> ClientNow]
       IN  /\ messages' = Append(messages, optimisticMessage)
           /\ sends' = [sends EXCEPT ![s] =
                  [pc |-> "awaitFirst", chat |-> chatId,
                   content |-> trimmedContent, src |-> src, reqs |-> 1,
                   req |-> "sent", row |-> 0, timer |-> 0,
                   promise |-> "pending", task |-> "none",
                   denied |-> FALSE]]
           /\ nextSend' = s

\* ChatView.handleSend (the composer is rendered only once loading is over)
HandleSend(newMessage) ==
    /\ ~loading
    /\ Trim(newMessage) # <<>>
    /\ ~isSending
    /\ isSending' = TRUE
    /\ SendMessage(Trim(newMessage), "composer")
    /\ UNCHANGED <<loading, fetch, rows, notif, remotes>>
    /\ UNCHANGED <<switchVars, notMessages>>

\* ChatView: a tap on entry i of the rendered list, onClick only when isFailed
HandleRetryMessage(i) ==
    /\ ~loading
    /\ i \in DOMAIN messages
    /\ StartsWith(messages[i].id.pre, "failed-")
    /\ Includes(messages[i].content, "Failed to send: ")
    /\ SendMessage(StripFailurePrefix(messages[i].content), "tap")
    /\ UNCHANGED <<loading, fetch, isSending, rows, notif, remotes>>
    /\ UNCHANGED <<switchVars, notMessages>>

\* sendMessage called by any user of the hook, with any content: it returns
\* at its guard, or goes on as above
LogCall(log, content, returns) ==
    [n |-> log.n + 1,
     returned |-> log.returned + (IF returns THEN 1 ELSE 0),
     content |-> content, chat |-> chatId, user |-> user]

SendMessageCall(content) ==
    /\ IF SendGuard(content)
       THEN /\ SendMessage(content, "direct")
            /\ callLog' = LogCall(callLog, content, FALSE)
       ELSE /\ callLog.returned < MaxReturns
            /\ callLog' = LogCall(callLog, content, TRUE)
            /\ UNCHANGED <<messages, sends, nextSend>>
    /\ UNCHANGED <<loading, fetch, isSending, rows, notif, remotes>>
    /\ UNCHANGED <<switchVars, user, hookVars, notGuard>>

\* the hook's own useAuth instance learns the session: the effect on
\* [chatId, user] runs again
AuthResolved ==
    /\ user = NoUser
    /\ user' = Me
    /\ messages' = <<>>
    /\ IF chatId # NoChat
       THEN /\ loading' = TRUE
            /\ fetch' = [pc |-> "query", data |-> <<>>]
       ELSE /\ loading' = FALSE
            /\ UNCHANGED fetch
    /\ UNCHANGED <<sends, nextSend, isSending, rows, notif, remotes>>
    /\ UNCHANGED <<switchVars, callLog, hookVars, notGuard>>

\* the store applies the create request the client is waiting for
ServerApply(s) ==
    /\ sends[s].req = "sent"
    /\ InsertRow(sends[s].chat, Me, sends[s].content)
    /\ sends' = [sends EXCEPT ![s].req = "applied", ![s].row = Len(rows) + 1]
    /\ UNCHANGED <<messages, loading, fetch, nextSend, isSending, remotes>>
    /\ UNCHANGED <<switchVars, notMessages>>

Resolve(s) == IF sends[s].src = "composer" THEN FALSE ELSE isSending

\* the first request's reply arrives with the stored row
SendReply(s) ==
    /\ sends[s].pc = "awaitFirst"
    /\ sends[s].req = "applied"
    /\ messages' = ReplaceById(messages, OptimisticId(s),
                               Selected(rows[sends[s].row]))
    /\ sends' = [sends EXCEPT ![s].pc = "confirmed", ![s].req = "none",
                              ![s].promise = AsyncResult(FALSE)]
    /\ isSending' = Resolve(s)
    /\ UNCHANGED <<loading, fetch, nextSend, rows, notif, remotes>>
    /\ UNCHANGED <<switchVars, notMessages>>

\* a catch block that sets the retry timer after every failure
RetryTimerAlways(kind) == RetryDelayMs

\* if (error.message?.includes('timeout')) setTimeout(..., 2000); 0: no timer
RetryTimer(kind) ==
    IF Includes(ErrorMessage(kind), "timeout") THEN RetryDelayMs ELSE 0

\* the first request fails: error value, thrown error, or the 30 s race
SendError(s, kind) ==
    /\ sends[s].pc = "awaitFirst"
    /\ \/ kind \in {"clientTimeout", "network"} /\ sends[s].req \in {"sent", "applied"}
       \/ kind \in {"stmtTimeout", "auth"} /\ sends[s].req = "sent"
    /\ messages' = MarkFailed(messages, OptimisticId(s), sends[s].content)
    /\ sends' = [sends EXCEPT
          ![s].pc = "failed",
          ![s].req = "none",
          ![s].row = 0,
          ![s].timer = RetryTimer(kind),
          ![s].denied = (kind = "auth"),
          ![s].promise = AsyncResult(SendCatchThrows(kind))]
    /\ isSending' = Resolve(s)
    /\ UNCHANGED <<loading, fetch, nextSend, rows, notif, remotes>>
    /\ UNCHANGED <<switchVars, notMessages>>

\* -------------------------------------------------------- retryMessage
\* the retry timer fires: retrying marker, second create request issued
RetryMessage(s) ==
    /\ sends[s].pc = "failed"
    /\ sends[s].timer > 0
    /\ messages' = MarkRetrying(messages, FailedId(OptimisticId(s)), sends[s].content)
    /\ sends' = [sends EXCEPT ![s].pc = "awaitRetry", ![s].timer = 0,
                              ![s].req = "sent", ![s].reqs = @ + 1,
                              ![s].task = "pending"]
    /\ UNCHANGED <<loading, fetch, nextSend, isSending, rows, notif, remotes>>
    /\ UNCHANGED <<switchVars, notMessages>>

\* a retry reply handler that takes over the row's identifier only
RetryReplyKeepsContent(s) ==
    /\ sends[s].pc = "awaitRetry"
    /\ sends[s].req = "applied"
    /\ LET F(msg) == IF msg.id = FailedId(OptimisticId(s))
                      THEN [msg EXCEPT !.id = rows[sends[s].row].id]
                      ELSE msg
       IN  messages' = MapList(messages, F)
    /\ sends' = [sends EXCEPT ![s].pc = "retryConfirmed", ![s].req = "none"]
    /\ UNCHANGED <<loading, fetch, nextSend, isSending, rows, notif, remotes>>
    /\ UNCHANGED <<switchVars, notMessages>>

\* the retry's reply arrives with the stored row
RetryReply(s) ==
    /\ sends[s].pc = "awaitRetry"
    /\ sends[s].req = "applied"
    /\ messages' = ReplaceById(messages, FailedId(OptimisticId(s)),
                               Selected(rows[sends[s].row]))
    /\ sends' = [sends EXCEPT ![s].pc = "retryConfirmed", ![s].req = "none",
                              ![s].task = AsyncResult(FALSE)]
    /\ UNCHANGED <<loading, fetch, nextSend, isSending, rows, notif, remotes>>
    /\ UNCHANGED <<switchVars, notMessages>>

\* a retry failure handler that schedules a retry again, as the first
\* failure does
RetryErrorReschedules(s, kind) ==
    /\ sends[s].pc = "awaitRetry"
    /\ \/ kind = "network" /\ sends[s].req \in {"sent", "applied"}
       \/ kind \in {"stmtTimeout", "auth"} /\ sends[s].req = "sent"
    /\ messages' = MarkFailed(messages, FailedId(OptimisticId(s)), sends[s].content)
    /\ sends' = [sends EXCEPT ![s].pc = "failed", ![s].req = "none",
                              ![s].row = 0, ![s].timer = RetryDelayMs]
    /\ UNCHANGED <<loading, fetch, nextSend, isSending, rows, notif, remotes>>
    /\ UNCHANGED <<switchVars, notMessages>>

\* the retry fails: error value or thrown error (there is no race here)
RetryError(s, kind) ==
    /\ sends[s].pc = "awaitRetry"
    /\ \/ kind = "network" /\ sends[s].req \in {"sent", "applied"}
       \/ kind \in {"stmtTimeout", "auth"} /\ sends[s].req = "sent"
    /\ messages' = MarkPermanent(messages, FailedId(OptimisticId(s)), sends[s].content)
    /\ sends' = [sends EXCEPT ![s].pc = "permFailed", ![s].req = "none",
                              ![s].row = 0,
                              ![s].task = AsyncResult(RetryCatchThrows(kind))]
    /\ UNCHANGED <<loading, fetch, nextSend, isSending, rows, notif, remotes>>
    /\ UNCHANGED <<switchVars, notMessages>>

\* ------------------------------------------- change feed, INSERT events
\* another client inserts a row into the open conversation
RemoteInsert(limit, sender, content) ==
    /\ remotes < limit
    /\ remotes' = remotes + 1
    /\ InsertRow(chatId, sender, content)
    /\ UNCHANGED <<messages, loading, fetch, sends, nextSend, isSending>>
    /\ UNCHANGED <<switchVars, notMessages>>

\* the INSERT handler runs for row r: its reads of the row and of the
\* sender return, in any order among the handlers in flight, and it merges
\* (maybeSingle() finds nothing once the row is deleted: nothing is merged)
MergeInsert(r) ==
    /\ r \in DOMAIN notif
    /\ notif[r] \in {"pending", "again"}
    /\ messages' = IF r \in deleted THEN messages
                   ELSE MergeInsertList(messages, Selected(rows[r]))
    /\ notif' = [notif EXCEPT ![r] = IF @ = "pending" THEN "done" ELSE "final"]
    /\ UNCHANGED <<loading, fetch, sends, nextSend, isSending, rows, remotes>>
    /\ UNCHANGED <<switchVars, notMessages>>

\* the row read returns no data or throws: nothing is merged
ReadFail(r) ==
    /\ r \in DOMAIN notif
    /\ notif[r] \in {"pending", "again"}
    /\ notif' = [notif EXCEPT ![r] = IF @ = "pending" THEN "done" ELSE "final"]
    /\ UNCHANGED <<messages, loading, fetch, sends, nextSend, isSending, rows,
                   remotes>>
    /\ UNCHANGED <<switchVars, notMessages>>

\* the feed delivers, once more, a notification it has already delivered
Redeliver(r) ==
    /\ r \in DOMAIN notif
    /\ notif[r] = "done"
    /\ Cardinality({q \in DOMAIN notif : notif[q] \in {"again", "final"}})
          < MaxRedeliver
    /\ notif' = [notif EXCEPT ![r] = "again"]
    /\ UNCHANGED <<messages, loading, fetch, sends, nextSend, isSending, rows,
                   remotes>>
    /\ UNCHANGED <<switchVars, notMessages>>

\* --------------------------------- change feed, UPDATE and DELETE events
\* The revision of the hook that also subscribes to UPDATE and DELETE.  The
\* tables have no UPDATE or DELETE policy for messages, so rows change only
\* through the service role.
UpdatedContents == {<<"yo", " (edited)">>}

Notify(event, r) ==
    Append(changes,
           [event |-> event, row |-> r, hit |-> FALSE,
            st |-> IF rows[r].chat_id = chatId THEN "pending" ELSE "none"])

\* a row of the table is updated
RemoteUpdate(r, content) ==
    /\ r \in DOMAIN rows
    /\ r \notin deleted
    /\ Len(changes) < MaxChanges
    /\ rows' = [rows EXCEPT ![r].content = content]
    /\ changes' = Notify("UPDATE", r)
    /\ UNCHANGED <<messages, loading, fetch, sends, nextSend, isSending, notif,
                   remotes, deleted>>
    /\ UNCHANGED <<switchVars, hookVars, notFeed>>

\* a row of the table is deleted
RemoteDelete(r) ==
    /\ r \in DOMAIN rows
    /\ r \notin deleted
    /\ Len(changes) < MaxChanges
    /\ deleted' = deleted \cup {r}
    /\ changes' = Notify("DELETE", r)
    /\ UNCHANGED msgVars
    /\ UNCHANGED <<switchVars, hookVars, notFeed>>

\* an UPDATE handler that adds the row when the list does not hold it
UpdateListUpserts(prev, data) ==
    IF \E i \in DOMAIN prev : prev[i].id = data.id
    THEN ReplaceById(prev, data.id, data)
    ELSE Append(prev, data)

\* prev.map(msg => msg.id === data.id ? data : msg)
UpdateList(prev, data) == ReplaceById(prev, data.id, data)

\* a DELETE handler whose filter keeps what it should drop
DeleteListInverted(prev, id) ==
    LET Same(msg) == msg.id = id
    IN  SelectSeq(prev, Same)

\* prev.filter(msg => msg.id !== payload.old.id)
DeleteList(prev, id) ==
    LET Keep(msg) == msg.id # id
    IN  SelectSeq(prev, Keep)

\* the UPDATE handler for notification c: its read of the row returns the
\* row as it is now (data), nothing (the row is gone) or throws
UpdateHandler(c, reads) ==
    /\ c \in DOMAIN changes
    /\ changes[c].event = "UPDATE"
    /\ changes[c].st = "pending"
    /\ LET r == changes[c].row
           data == Selected(rows[r])
       IN  IF reads /\ r \notin deleted
           THEN /\ messages' = UpdateList(messages, data)
                /\ changes' = [changes EXCEPT
                       ![c].st = "merged",
                       ![c].hit = \E i \in DOMAIN messages :
                                      messages[i].id = data.id]
           ELSE /\ changes' = [changes EXCEPT ![c].st = "nothing"]
                /\ UNCHANGED messages
    /\ UNCHANGED <<loading, fetch, sends, nextSend, isSending, rows, notif,
                   remotes, deleted>>
    /\ UNCHANGED <<switchVars, hookVars, notFeed>>

\* the DELETE handler for notification c (synchronous, no read)
DeleteHandler(c) ==
    /\ c \in DOMAIN changes
    /\ changes[c].event = "DELETE"
    /\ changes[c].st = "pending"
    /\ LET id == ServerId(changes[c].row)
       IN  /\ messages' = DeleteList(messages, id)
           /\ changes' = [changes EXCEPT
                  ![c].st = "merged",
                  ![c].hit = \E i \in DOMAIN messages : messages[i].id = id]
    /\ UNCHANGED <<loading, fetch, sends, nextSend, isSending, rows, notif,
                   remotes, deleted>>
    /\ UNCHANGED <<switchVars, hookVars, notFeed>>

\* ------------------------------------- row-level security of the tables
\* auth.uid() of a request: one of two users, or null for the anon role
Principals == Writers \cup {NoUser}

HasChat(chat) == participants[chat] # {}

\* a policy that tests the sender or the membership
InsertPolicyEither(uid, chat, sender) ==
    /\ uid # NoUser
    /\ \/ uid = sender
       \/ HasChat(chat) /\ uid \in participants[chat]

\* "Users can insert messages to their chats": TO authenticated WITH CHECK
\* (auth.uid() = sender_id AND EXISTS (SELECT 1 FROM chats WHERE chats.id =
\* messages.chat_id AND auth.uid() = ANY(chats.participants)))
InsertPolicy(uid, chat, sender) ==
    /\ uid # NoUser
    /\ uid = sender
    /\ HasChat(chat) /\ uid \in participants[chat]

LogInsert(uid, chat, sender, accepted) ==
    [n |-> inserts.n + 1,
     refused |-> inserts.refused + (IF accepted THEN 0 ELSE 1),
     by |-> uid, chat |-> chat, sender |-> sender, accepted |-> accepted]

\* a principal's INSERT into messages through the API: stored if the policy
\* check passes, refused with an error otherwise
InsertMessage(uid, chat, sender, content) ==
    /\ IF InsertPolicy(uid, chat, sender)
       THEN /\ Len(rows) < MaxStored
            /\ InsertRow(chat, sender, content)
            /\ inserts' = LogInsert(uid, chat, sender, TRUE)
       ELSE /\ inserts.refused < MaxRefused
            /\ inserts' = LogInsert(uid, chat, sender, FALSE)
            /\ UNCHANGED <<rows, notif>>
    /\ UNCHANGED <<messages, loading, fetch, sends, nextSend, isSending,
                   remotes, participants>>
    /\ UNCHANGED <<switchVars, hookVars, notPolicy>>

\* "Users can create chats": WITH CHECK (auth.uid() = ANY(participants))
CreateChat(uid, chat, members) ==
    /\ ~HasChat(chat)
    /\ uid # NoUser
    /\ uid \in members
    /\ participants' = [participants EXCEPT ![chat] = members]
    /\ UNCHANGED <<msgVars, inserts>>
    /\ UNCHANGED <<switchVars, hookVars, notPolicy>>

\* "Users can update chats they participate in": USING (auth.uid() =
\* ANY(participants)), which is also the check of the row as updated
UpdateChat(uid, chat, members) ==
    /\ HasChat(chat)
    /\ uid # NoUser
    /\ uid \in participants[chat]
    /\ uid \in members
    /\ members # participants[chat]
    /\ participants' = [participants EXCEPT ![chat] = members]
    /\ UNCHANGED <<msgVars, inserts>>
    /\ UNCHANGED <<switchVars, hookVars, notPolicy>>

\* -------------------------------------------------------------- useChats
\* a message is inserted into one of the user's conversations; the trigger
\* updates the conversation's row, and both changes are notified to useChats
\* (chatNotif: the messages INSERT; chatsFetch: the chats event's refetch)
InsertIntoChat(chat, sender, content) ==
    /\ Len(rows) < MaxChatRows
    /\ InsertRow(chat, sender, content)
    /\ chatNotif' = Append(chatNotif, "pending")
    /\ UNCHANGED <<messages, loading, fetch, sends, nextSend, isSending,
                   remotes, chats, chatsFetch>>
    /\ UNCHANGED <<switchVars, hookVars, notChats>>

\* a handler that only rewrites the conversation's entry
MessageInsertListUnsorted(prev, newMessage) ==
    LET F(chat) == IF chat.id = newMessage.chat_id
                   THEN [chat EXCEPT !.last_message = newMessage.content,
                                     !.updated_at = newMessage.created_at]
                   ELSE chat
    IN  MapList(prev, F)

\* the messages INSERT handler's setChats: map, then sort
MessageInsertList(prev, newMessage) ==
    LET F(chat) == IF chat.id = newMessage.chat_id
                   THEN [chat EXCEPT !.last_message = newMessage.content,
                                     !.updated_at = newMessage.created_at]
                   ELSE chat
    IN  SortByUpdatedAt(MapList(prev, F))

\* the handler runs for row r (payload.new is the row as inserted); the
\* feed delivers the notifications of a channel in order
HandleMessageInsert(r) ==
    /\ r \in DOMAIN chatNotif
    /\ chatNotif[r] = "pending"
    /\ \A q \in 1..(r - 1) : chatNotif[q] = "done"
    /\ chats' = MessageInsertList(chats, rows[r])
    /\ chatNotif' = [chatNotif EXCEPT ![r] = "done"]
    /\ UNCHANGED <<msgVars, chatsFetch>>
    /\ UNCHANGED <<switchVars, hookVars, notChats>>

\* the chats handler calls fetchChats: the query is issued
FetchChats ==
    /\ chatsFetch.pc = "done"
    /\ \E q \in DOMAIN chatNotif : TRUE
    /\ chatsFetch' = [pc |-> "query", data |-> <<>>]
    /\ UNCHANGED <<msgVars, chats, chatNotif>>
    /\ UNCHANGED <<switchVars, hookVars, notChats>>

\* the query returns the user's conversations, newest first
FetchChatsQueryDone ==
    /\ chatsFetch.pc = "query"
    /\ chatsFetch' = [pc |-> "users", data |-> QueryChats]
    /\ UNCHANGED <<msgVars, chats, chatNotif>>
    /\ UNCHANGED <<switchVars, hookVars, notChats>>

\* the user lookups return: setChats(chatsWithUsers)
FetchChatsDone ==
    /\ chatsFetch.pc = "users"
    /\ chats' = chatsFetch.data
    /\ chatsFetch' = NoChatsFetch
    /\ UNCHANGED <<msgVars, chatNotif>>
    /\ UNCHANGED <<switchVars, hookVars, notChats>>

\* the query ends with an error: logged, the list stays
FetchChatsError ==
    /\ chatsFetch.pc = "query"
    /\ chatsFetch' = NoChatsFetch
    /\ UNCHANGED <<msgVars, chats, chatNotif>>
    /\ UNCHANGED <<switchVars, hookVars, notChats>>

\* --------------------------------------------------- useAuth.updateProfile
\* .eq('username', name).neq('id', user.id): another user holds the name
HeldByOther(name) == \E u \in Writers \ {Me} : usernames[u] = name

\* the update request is issued
IssueUpdate ==
    updateOp' = [updateOp EXCEPT !.pc = "update", !.reqs = @ + 1,
                                 !.req = "sent"]

\* updateProfile({username: name}) is called: with a name other than the
\* local profile's the check query is issued first
UpdateProfile(name) ==
    /\ updateOp.pc \in {"idle", "done", "failed"}
    /\ LET op == [pc |-> "check", name |-> name, held |-> HeldByOther(name),
                  reqs |-> 0, before |-> profile, req |-> "none"]
       IN  IF user = NoUser
           THEN updateOp' = [op EXCEPT !.pc = "failed"]
           ELSE IF name # profile
                THEN updateOp' = op
                ELSE updateOp' = [op EXCEPT !.pc = "update", !.reqs = 1,
                                            !.req = "sent"]
    /\ UNCHANGED <<msgVars, profile, usernames>>
    /\ UNCHANGED <<switchVars, hookVars, notProfile>>

CheckOutcomes == {"data", "jwt", "network", "other"}

CheckErrorMessage(outcome) ==
    CASE outcome = "jwt" -> <<"JWT", " expired">>
      [] outcome = "network" -> <<"TypeError: ", "Failed to fetch">>
      [] outcome = "other" -> <<"canceling statement due to statement timeout">>

\* the check query ends: with data (the row of another user with the name,
\* or none) or with an error
CheckDone(outcome) ==
    /\ updateOp.pc = "check"
    /\ IF outcome = "data"
       THEN IF HeldByOther(updateOp.name)
            THEN updateOp' = [updateOp EXCEPT !.pc = "failed"]
            ELSE IssueUpdate
       ELSE IF ~Includes(CheckErrorMessage(outcome), "JWT")
            THEN updateOp' = [updateOp EXCEPT !.pc = "failed"]
            ELSE IssueUpdate
    /\ UNCHANGED <<msgVars, profile, usernames>>
    /\ UNCHANGED <<switchVars, hookVars, notProfile>>

\* the store runs the UPDATE: the unique index users_username_key refuses a
\* name another row holds
StoreUpdate ==
    /\ updateOp.pc = "update"
    /\ updateOp.req = "sent"
    /\ IF HeldByOther(updateOp.name)
       THEN /\ updateOp' = [updateOp EXCEPT !.req = "refused"]
            /\ UNCHANGED usernames
       ELSE /\ updateOp' = [updateOp EXCEPT !.req = "applied"]
            /\ usernames' = [usernames EXCEPT ![Me] = updateOp.name]
    /\ UNCHANGED <<msgVars, profile>>
    /\ UNCHANGED <<switchVars, hookVars, notProfile>>

\* the reply arrives: setProfile on success, a throw on an error value
UpdateReply ==
    /\ updateOp.pc = "update"
    /\ updateOp.req \in {"applied", "refused"}
    /\ IF updateOp.req = "applied"
       THEN /\ profile' = updateOp.name
            /\ updateOp' = [updateOp EXCEPT !.pc = "done", !.req = "none"]
       ELSE /\ updateOp' = [updateOp EXCEPT !.pc = "failed", !.req = "none"]
            /\ UNCHANGED profile
    /\ UNCHANGED <<msgVars, usernames>>
    /\ UNCHANGED <<switchVars, hookVars, notProfile>>

\* the request or its reply is lost: 'Failed to fetch'
UpdateFails ==
    /\ updateOp.pc = "update"
    /\ updateOp.req \in {"sent", "applied"}
    /\ updateOp' = [updateOp EXCEPT !.pc = "failed", !.req = "none"]
    /\ UNCHANGED <<msgVars, profile, usernames>>
    /\ UNCHANGED <<switchVars, hookVars, notProfile>>

\* another user takes a free name; held stays TRUE only while the name
\* asked for has been another user's during the whole call
PeerRename(u, name) ==
    /\ \A v \in Writers : usernames[v] # name
    /\ usernames' = [usernames EXCEPT ![u] = name]
    /\ updateOp' = [updateOp EXCEPT
          !.held = @ /\ (updateOp.pc \in {"check", "update"}
                            => \E v \in Writers \ {Me} :
                                   usernames'[v] = updateOp.name)]
    /\ UNCHANGED <<msgVars, profile>>
    /\ UNCHANGED <<switchVars, hookVars, notProfile>>

\* ------------------------------------------ usePresence: the local map
\* the effect runs: the channel is subscribed, then fetchPresence is called
PresenceEffect ==
    /\ presenceFetch.pc = "idle"
    /\ presenceFetch' = [pc |-> "sent", data |-> <<>>]
    /\ UNCHANGED <<presenceStore, presenceData, presenceEvents>>
    /\ UNCHANGED <<msgVars, switchVars, hookVars, notMap>>

\* update_user_presence of any client is applied: updated_at = now(), and
\* the subscribed channel is notified of the row
PresenceChange(u, status) ==
    /\ \A v \in Announcers : presenceStore[v].updated_at < MaxPresenceChanges
    /\ LET latest == CHOOSE t \in 0..MaxPresenceChanges :
                         /\ \E v \in Announcers :
                                presenceStore[v].updated_at = t
                         /\ \A v \in Announcers :
                                presenceStore[v].updated_at <= t
           row == [status |-> status, updated_at |-> latest + 1]
       IN  /\ presenceStore' = [presenceStore EXCEPT ![u] = row]
           /\ presenceEvents' =
                  IF presenceFetch.pc = "idle" THEN presenceEvents
                  ELSE Append(presenceEvents, [user_id |-> u, new |-> row])
    /\ UNCHANGED <<presenceData, presenceFetch>>
    /\ UNCHANGED <<msgVars, switchVars, hookVars, notMap>>

\* the store runs select('*') of fetchPresence
FetchPresenceRead ==
    /\ presenceFetch.pc = "sent"
    /\ presenceFetch' = [pc |-> "read", data |-> presenceStore]
    /\ UNCHANGED <<presenceStore, presenceData, presenceEvents>>
    /\ UNCHANGED <<msgVars, switchVars, hookVars, notMap>>

\* data.reduce(...) then setPresenceData(presenceMap): the map is replaced
FetchPresenceMap(prev, data) == [u \in Announcers |-> data[u]]

\* the reply of fetchPresence arrives
FetchPresenceDone ==
    /\ presenceFetch.pc = "read"
    /\ presenceData' = FetchPresenceMap(presenceData, presenceFetch.data)
    /\ presenceFetch' = [pc |-> "done", data |-> <<>>]
    /\ UNCHANGED <<presenceStore, presenceEvents>>
    /\ UNCHANGED <<msgVars, switchVars, hookVars, notMap>>

\* fetchPresence gets no data or throws: logged, the map is left
FetchPresenceError ==
    /\ presenceFetch.pc \in {"sent", "read"}
    /\ presenceFetch' = [pc |-> "done", data |-> <<>>]
    /\ UNCHANGED <<presenceStore, presenceData, presenceEvents>>
    /\ UNCHANGED <<msgVars, switchVars, hookVars, notMap>>

\* the postgres_changes handler: {...prev, [presence.user_id]: presence}
PresenceEvent ==
    /\ presenceEvents # <<>>
    /\ LET presence == Head(presenceEvents)
       IN  presenceData' =
               [presenceData EXCEPT ![presence.user_id] = presence.new]
    /\ presenceEvents' = Tail(presenceEvents)
    /\ UNCHANGED <<presenceStore, presenceFetch>>
    /\ UNCHANGED <<msgVars, switchVars, hookVars, notMap>>

\* ------------------------------------- useMessages: effect and cleanup
\* an effect whose cleanup releases nothing
CleanupNone(list, handle) == list

\* the cleanup returned by the effect: subscription.unsubscribe()
Cleanup(list, handle) ==
    IF handle \in DOMAIN list
    THEN [list EXCEPT ![handle].state = "closed"]
    ELSE list

\* the effect on [chatId, user] runs for the props given, after the
\* cleanup of the effect before it
RunEffect(chat, usr) ==
    LET released == Cleanup(channels, effect)
    IN  IF chat # NoChat /\ usr # NoUser
        THEN /\ Len(channels) < MaxSubscribes
             /\ channels' = Append(released,
                                    [chat |-> chat, state |-> "subscribed"])
             /\ effect' = Len(channels) + 1
        ELSE /\ channels' = released
             /\ effect' = NoHandle

\* Layout renders ChatView for the selected conversation; the hook's own
\* useAuth instance has no user yet
OpenView(chat) ==
    /\ ~view.mounted
    /\ view' = [mounted |-> TRUE, chatId |-> chat, user |-> NoUser]
    /\ RunEffect(chat, NoUser)
    /\ UNCHANGED <<msgVars, switchVars, hookVars, notView>>

\* setUser(session?.user ?? null): the session's user, a new object at
\* every auth event, or null after sign-out
AuthEvent(usr) ==
    /\ view.mounted
    /\ view' = [view EXCEPT !.user = usr]
    /\ IF usr = NoUser /\ view.user = NoUser
       THEN UNCHANGED <<channels, effect>>
       ELSE RunEffect(view.chatId, usr)
    /\ UNCHANGED <<msgVars, switchVars, hookVars, notView>>

\* another conversation is selected: the chatId prop changes
SelectChat(chat) ==
    /\ view.mounted
    /\ chat # view.chatId
    /\ view' = [view EXCEPT !.chatId = chat]
    /\ RunEffect(chat, view.user)
    /\ UNCHANGED <<msgVars, switchVars, hookVars, notView>>

\* the selection is cleared: ChatView unmounts and the cleanup runs
CloseView ==
    /\ view.mounted
    /\ view' = [mounted |-> FALSE, chatId |-> NoChat, user |-> NoUser]
    /\ channels' = Cleanup(channels, effect)
    /\ effect' = NoHandle
    /\ UNCHANGED <<msgVars, switchVars, hookVars, notView>>

\* ------------------------------------------------------- TypingIndicator
\* the typing lists useTyping can hold: no id twice, at most MaxTypers long
TypingLists ==
    UNION {{l \in [1..n -> Typers] :
                \A i, j \in 1..n : i # j => l[i].id # l[j].id}
           : n \in 0..MaxTypers}

getTypingTextCountsAll(list) ==
    IF Len(list) = 1
    THEN list[1].name \o " is typing"
    ELSE IF Len(list) = 2
         THEN list[1].name \o " and " \o list[2].name
                  \o " are typing"
         ELSE list[1].name \o " and "
                  \o ToString(Len(list)) \o " others are typing"

getTypingText(list) ==
    IF Len(list) = 1
    THEN list[1].name \o " is typing"
    ELSE IF Len(list) = 2
         THEN list[1].name \o " and " \o list[2].name
                  \o " are typing"
         ELSE list[1].name \o " and "
                  \o ToString(Len(list) - 1) \o " others are typing"

\* the component: null for an empty list, else the text in its bubble
TypingIndicator(list) ==
    IF Len(list) = 0 THEN Nothing ELSE getTypingText(list)

\* the component renders its prop
RenderIndicator ==
    /\ indicator' = TypingIndicator(typingProp)
    /\ UNCHANGED <<msgVars, typingProp>>
    /\ UNCHANGED <<switchVars, hookVars, notIndicator>>

\* a typing=true signal of a user not in the list: appended, rendered again
TyperJoins(u) ==
    /\ Len(typingProp) < MaxTypers
    /\ \A i \in DOMAIN typingProp : typingProp[i].id # u.id
    /\ typingProp' = Append(typingProp, u)
    /\ indicator' = TypingIndicator(typingProp')
    /\ UNCHANGED msgVars
    /\ UNCHANGED <<switchVars, hookVars, notIndicator>>

\* a typing=false signal or an expiry: filtered out, rendered again
TyperLeaves(id) ==
    /\ \E i \in DOMAIN typingProp : typingProp[i].id = id
    /\ LET Keep(u) == u.id # id
       IN  typingProp' = SelectSeq(typingProp, Keep)
    /\ indicator' = TypingIndicator(typingProp')
    /\ UNCHANGED msgVars
    /\ UNCHANGED <<switchVars, hookVars, notIndicator>>

\* ------------------------------------------------------------- useTyping
InTyping(list, user_id) == \E i \in DOMAIN list : list[i] = user_id

WithoutUser(list, user_id) ==
    LET Keep(u) == u # user_id
    IN  SelectSeq(list, Keep)

\* a setTimeout callback runs once its delay has passed
ExpiryDue == expiryTimers # <<>> /\ Head(expiryTimers).due <= now
IdleDue == \E d \in armed : d <= now

\* what a signal of peer p does to the record kept about p
LogPeerSignal(log, is_typing, wasThere) ==
    IF is_typing
    THEN [addedAt |-> IF wasThere THEN log.addedAt ELSE now,
          later |-> wasThere,
          lastKind |-> "true",
          lastTrueAt |-> now]
    ELSE [log EXCEPT !.later = TRUE, !.lastKind = "false"]

\* a handler that appends the user of every typing=true signal
AddTypingUserAlways(prev, user_id) == Append(prev, user_id)

\* prev.some(u => u.id === user_id) ? prev : [...prev, {...}]
AddTypingUser(prev, user_id) ==
    IF InTyping(prev, user_id) THEN prev ELSE Append(prev, user_id)

\* the broadcast handler of the typing channel
BroadcastHandler(user_id, is_typing) ==
    /\ is_typing => Len(expiryTimers) < MaxTimers
    /\ IF user_id = Me
       THEN UNCHANGED <<typingUsers, expiryTimers, peerLog>>
       ELSE /\ typingUsers' =
                  IF is_typing
                  THEN AddTypingUser(typingUsers, user_id)
                  ELSE WithoutUser(typingUsers, user_id)
            /\ expiryTimers' =
                  IF is_typing
                  THEN Append(expiryTimers,
                              [user_id |-> user_id, due |-> now + ExpiryMs])
                  ELSE expiryTimers
            /\ peerLog' = [peerLog EXCEPT ![user_id] =
                  LogPeerSignal(@, is_typing, InTyping(typingUsers, user_id))]

\* a typing signal arrives
ReceiveTyping(user_id, is_typing) ==
    /\ BroadcastHandler(user_id, is_typing)
    /\ UNCHANGED <<msgVars, switchVars, otherVars, now, typingOutVars, presenceVars>>

\* an expiry timer that leaves the typing set as it is
ExpireTypingKeeps ==
    /\ ExpiryDue
    /\ expiryTimers' = Tail(expiryTimers)
    /\ UNCHANGED <<typingUsers, peerLog>>
    /\ UNCHANGED <<msgVars, switchVars, otherVars, now, typingOutVars, presenceVars>>

\* the 3000 ms timer of a typing=true signal runs
ExpireTyping ==
    /\ ExpiryDue
    /\ typingUsers' = WithoutUser(typingUsers, Head(expiryTimers).user_id)
    /\ expiryTimers' = Tail(expiryTimers)
    /\ UNCHANGED peerLog
    /\ UNCHANGED <<msgVars, switchVars, otherVars, now, typingOutVars, presenceVars>>

\* time passes once every due timer has run
Tick ==
    /\ now < MaxTimeMs
    /\ ~ExpiryDue
    /\ ~IdleDue
    /\ now' = now + TickMs
    /\ UNCHANGED <<msgVars, switchVars, otherVars, typingInVars, typingOutVars,
                   presenceVars>>

\* a throttle window one tick too short
ThrottledShortWindow(typing) ==
    typing /\ now - lastTypingSignal < ThrottleMs - TickMs

\* sendTypingIndicator: a typing=true signal within 500 ms of the last
\* signal sent, of either kind, is dropped
Throttled(typing) == typing /\ now - lastTypingSignal < ThrottleMs

LogSent(log, typing) ==
    IF typing
    THEN [log EXCEPT !.prevTrue = log.lastTrue, !.lastTrue = now]
    ELSE [log EXCEPT !.falseSince = IF @ < 2 THEN @ + 1 ELSE @]

\* sendTypingIndicator(typing), with chatId, user and profile present;
\* log is the record the signal, if sent, is entered into
SendTypingIndicator(typing, log) ==
    IF Throttled(typing)
    THEN /\ UNCHANGED lastTypingSignal
         /\ outLog' = log
    ELSE /\ lastTypingSignal' = now
         /\ outLog' = LogSent(log, typing)

\* a keystroke handler that sets a new idle timer and leaves the old one
HandleTypingKeepsTimer ==
    /\ isTyping' = TRUE
    /\ LET log == [outLog EXCEPT !.lastKey = now, !.stopSince = FALSE,
                                 !.falseSince = 0,
                                 !.announced = IF isTyping THEN @
                                               ELSE ~Throttled(TRUE)]
       IN  IF ~isTyping
           THEN SendTypingIndicator(TRUE, log)
           ELSE /\ UNCHANGED lastTypingSignal
                /\ outLog' = log
    /\ armed' = armed \cup {now + IdleMs}
    /\ typingTimeout' = now + IdleMs
    /\ UNCHANGED <<msgVars, switchVars, otherVars, now, typingInVars, presenceVars>>

\* handleTyping: a keystroke that leaves text in the composer
HandleTyping ==
    /\ isTyping' = TRUE
    /\ LET log == [outLog EXCEPT !.lastKey = now, !.stopSince = FALSE,
                                 !.falseSince = 0,
                                 !.announced = IF isTyping THEN @
                                               ELSE ~Throttled(TRUE)]
       IN  IF ~isTyping
           THEN SendTypingIndicator(TRUE, log)
           ELSE /\ UNCHANGED lastTypingSignal
                /\ outLog' = log
    /\ armed' = (armed \ {typingTimeout}) \cup {now + IdleMs}
    /\ typingTimeout' = now + IdleMs
    /\ UNCHANGED <<msgVars, switchVars, otherVars, now, typingInVars, presenceVars>>

\* stopTyping: the composer is emptied or the message is sent
StopTyping ==
    /\ armed' = armed \ {typingTimeout}
    /\ LET log == [outLog EXCEPT !.stopSince = TRUE]
       IN  IF isTyping
           THEN /\ isTyping' = FALSE
                /\ SendTypingIndicator(FALSE, log)
           ELSE /\ UNCHANGED <<isTyping, lastTypingSignal>>
                /\ outLog' = log
    /\ UNCHANGED typingTimeout
    /\ UNCHANGED <<msgVars, switchVars, otherVars, now, typingInVars, presenceVars>>

\* the 1000 ms idle timer runs
IdleTimeout ==
    /\ \E d \in armed :
          /\ d <= now
          /\ armed' = armed \ {d}
    /\ isTyping' = FALSE
    /\ SendTypingIndicator(FALSE, outLog)
    /\ UNCHANGED typingTimeout
    /\ UNCHANGED <<msgVars, switchVars, otherVars, now, typingInVars, presenceVars>>

\* ------------------------------------- the hook in the client of peer p1
\* its signals reach the local client's broadcast handler at once
PeerSends(typing) ==
    ~(typing /\ now - peer.lastTypingSignal < ThrottleMs)

PeerIdleDue == peer.typingTimeout >= 0 /\ peer.typingTimeout <= now

\* handleTyping in the peer's client, before its idle timer is due: a
\* signal only when isTyping was false
PeerHandleTyping ==
    /\ ~PeerIdleDue
    /\ LET sent == ~peer.isTyping /\ PeerSends(TRUE)
       IN  /\ peer' = [isTyping |-> TRUE,
                       lastTypingSignal |-> IF sent THEN now
                                            ELSE peer.lastTypingSignal,
                       typingTimeout |-> now + IdleMs,
                       announced |-> IF peer.isTyping THEN peer.announced
                                     ELSE sent]
           /\ IF sent THEN BroadcastHandler("p1", TRUE)
              ELSE UNCHANGED typingInVars
    /\ UNCHANGED <<msgVars, switchVars, now, typingOutVars, presenceVars, notPeer>>

\* the peer's 1000 ms idle timer runs
PeerIdleTimeout ==
    /\ PeerIdleDue
    /\ peer' = [peer EXCEPT !.isTyping = FALSE, !.lastTypingSignal = now,
                            !.typingTimeout = -1]
    /\ BroadcastHandler("p1", FALSE)
    /\ UNCHANGED <<msgVars, switchVars, now, typingOutVars, presenceVars, notPeer>>

\* time passes once every due timer of either client has run
PeerTick ==
    /\ now < MaxTimeMs
    /\ ~ExpiryDue
    /\ ~PeerIdleDue
    /\ now' = now + TickMs
    /\ UNCHANGED <<msgVars, switchVars, otherVars, typingInVars, typingOutVars,
                   presenceVars>>

\* ---------------------------------------------------------- createChat
\* the rows of .contains('participants', [a]).contains('participants', [b])
\* .eq('is_group', false), as their ids (the row's position in the table)
DirectChats(table, a, b) ==
    {i \in DOMAIN table :
        /\ \E k \in DOMAIN table[i].participants :
              table[i].participants[k] = a
        /\ \E k \in DOMAIN table[i].participants :
              table[i].participants[k] = b
        /\ ~table[i].is_group}

\* maybeSingle(): the row if there is exactly one, null if there is none,
\* and an error whose data is null if there are several
MaybeSingle(found) ==
    IF Cardinality(found) = 1 THEN CHOOSE i \in found : TRUE ELSE 0

\* handleCreateChat(userId) in the client of u calls createChat: the
\* existence check is sent
HandleCreateChat(u, otherUserId) ==
    /\ createCalls[u].pc \in {"idle", "done"}
    /\ createCalls[u].n < MaxCreates
    /\ otherUserId # u
    /\ createCalls' = [createCalls EXCEPT ![u] =
          [pc |-> "select", other |-> otherUserId, result |-> 0,
           n |-> @.n + 1]]
    /\ UNCHANGED chatTable
    /\ UNCHANGED <<msgVars, switchVars, hookVars, notCreate>>

\* the existence check returns: an existing row's id is returned, otherwise
\* the insert is sent
CreateSelectReply(u) ==
    /\ createCalls[u].pc = "select"
    /\ LET existingChat ==
               MaybeSingle(DirectChats(chatTable, u, createCalls[u].other))
       IN  createCalls' = [createCalls EXCEPT ![u] =
               IF existingChat # 0
               THEN [@ EXCEPT !.pc = "done", !.result = existingChat]
               ELSE [@ EXCEPT !.pc = "insert"]]
    /\ UNCHANGED chatTable
    /\ UNCHANGED <<msgVars, switchVars, hookVars, notCreate>>

\* the existence check fails: only data is read, so the insert is sent
CreateSelectError(u) ==
    /\ createCalls[u].pc = "select"
    /\ createCalls' = [createCalls EXCEPT ![u].pc = "insert"]
    /\ UNCHANGED chatTable
    /\ UNCHANGED <<msgVars, switchVars, hookVars, notCreate>>

\* the insert is applied (the creator is a participant, so "Users can
\* create chats" lets it through) and the new row's id is returned
CreateInsertReply(u) ==
    /\ createCalls[u].pc = "insert"
    /\ Len(chatTable) < MaxDirectChats
    /\ chatTable' = Append(chatTable,
          [participants |-> <<u, createCalls[u].other>>, is_group |-> FALSE])
    /\ createCalls' = [createCalls EXCEPT ![u] =
          [@ EXCEPT !.pc = "done", !.result = Len(chatTable) + 1]]
    /\ UNCHANGED <<msgVars, switchVars, hookVars, notCreate>>

\* the insert fails: createChat returns null
CreateInsertError(u) ==
    /\ createCalls[u].pc = "insert"
    /\ createCalls' = [createCalls EXCEPT ![u] =
          [@ EXCEPT !.pc = "done", !.result = 0]]
    /\ UNCHANGED chatTable
    /\ UNCHANGED <<msgVars, switchVars, hookVars, notCreate>>

\* ------------------------------------------------- useMessageReactions
HasReaction(table, uid, reaction) ==
    \E i \in DOMAIN table :
        table[i].user_id = uid /\ table[i].reaction = reaction

\* INSERT INTO message_reactions under UNIQUE(message_id, user_id,
\* reaction); the rows are those of the one message the hook shows
InsertReaction(table, uid, reaction) ==
    IF HasReaction(table, uid, reaction) THEN table
    ELSE Append(table, [user_id |-> uid, reaction |-> reaction])

\* .delete().eq('message_id', ...).eq('user_id', ...).eq('reaction', ...)
DeleteReaction(table, uid, reaction) ==
    SelectSeq(table,
        LAMBDA r : ~(r.user_id = uid /\ r.reaction = reaction))

ToggleCalls == toggleLog["(thumbsup)"].n + toggleLog["(heart)"].n

\* toggleReaction(reaction): the local list decides between removeReaction
\* and addReaction, and the request is sent
ToggleReaction(reaction) ==
    /\ ToggleCalls < MaxToggles
    /\ LET existingReaction == HasReaction(reactions, Me, reaction)
       IN  reactionOps' = Append(reactionOps,
               [kind |-> IF existingReaction THEN "delete" ELSE "insert",
                reaction |-> reaction])
    /\ toggleLog' = [toggleLog EXCEPT ![reaction] =
          [n |-> @.n + 1,
           before |-> IF @.n = 0
                      THEN HasReaction(reactionStore, Me, reaction)
                      ELSE @.before]]
    /\ UNCHANGED <<reactionStore, reactions, reactionReads>>
    /\ UNCHANGED <<msgVars, switchVars, hookVars, notReaction>>

\* the store applies a request of the local user; a change of the table is
\* notified to the hook, a refused insert (23505) is only logged
ReactionApply(i) ==
    /\ i \in DOMAIN reactionOps
    /\ LET op == reactionOps[i]
           after == IF op.kind = "insert"
                    THEN InsertReaction(reactionStore, Me, op.reaction)
                    ELSE DeleteReaction(reactionStore, Me, op.reaction)
       IN  /\ reactionStore' = after
           /\ reactionReads' =
                 IF after # reactionStore
                 THEN [reactionReads EXCEPT !.pending = @ + 1]
                 ELSE reactionReads
    /\ reactionOps' = [k \in 1..(Len(reactionOps) - 1) |->
                         IF k < i THEN reactionOps[k] ELSE reactionOps[k + 1]]
    /\ UNCHANGED <<reactions, toggleLog>>
    /\ UNCHANGED <<msgVars, switchVars, hookVars, notReaction>>

\* a peer reacts to the message in its own client
PeerReaction(p, reaction) ==
    /\ Len(SelectSeq(reactionStore, LAMBDA r : r.user_id # Me))
          < MaxPeerReactions
    /\ ~HasReaction(reactionStore, p, reaction)
    /\ reactionStore' = InsertReaction(reactionStore, p, reaction)
    /\ reactionReads' = [reactionReads EXCEPT !.pending = @ + 1]
    /\ UNCHANGED <<reactions, reactionOps, toggleLog>>
    /\ UNCHANGED <<msgVars, switchVars, hookVars, notReaction>>

\* the postgres_changes handler runs: fetchReactions is called
ReactionEvent ==
    /\ reactionReads.pending > 0
    /\ reactionReads' = [pending |-> reactionReads.pending - 1,
                         inFlight |-> reactionReads.inFlight + 1]
    /\ UNCHANGED <<reactionStore, reactions, reactionOps, toggleLog>>
    /\ UNCHANGED <<msgVars, switchVars, hookVars, notReaction>>

\* fetchReactions reads the message's rows: setReactions(data || [])
FetchReactionsDone ==
    /\ reactionReads.inFlight > 0
    /\ reactions' = reactionStore
    /\ reactionReads' = [reactionReads EXCEPT !.inFlight = @ - 1]
    /\ UNCHANGED <<reactionStore, reactionOps, toggleLog>>
    /\ UNCHANGED <<msgVars, switchVars, hookVars, notReaction>>

\* fetchReactions fails: the list stays as it is
FetchReactionsError ==
    /\ reactionReads.inFlight > 0
    /\ reactionReads' = [reactionReads EXCEPT !.inFlight = @ - 1]
    /\ UNCHANGED <<reactionStore, reactions, reactionOps, toggleLog>>
    /\ UNCHANGED <<msgVars, switchVars, hookVars, notReaction>>

\* ------------------------------------------- usePresence and its table
HasPresence(table, uid) == \E i \in DOMAIN table : table[i].user_id = uid

\* an update_user_presence that inserts without ON CONFLICT
UpdateUserPresenceInsertOnly(table, uid, status_param) ==
    Append(table, PresenceRow(uid, status_param))

\* update_user_presence: INSERT ... ON CONFLICT (user_id) DO UPDATE
UpdateUserPresence(table, uid, status_param) ==
    IF HasPresence(table, uid)
    THEN [i \in DOMAIN table |->
            IF table[i].user_id = uid
            THEN [table[i] EXCEPT !.status = status_param]
            ELSE table[i]]
    ELSE Append(table, PresenceRow(uid, status_param))

InFlight ==
    calls["online"] + calls["offline"] + calls["away"] + calls["busy"]

\* k calls supabase.rpc('update_user_presence', {status_param}) are issued
Announce(status, k) ==
    /\ InFlight + k <= MaxCalls
    /\ calls' = [calls EXCEPT ![status] = @ + k]

Applied(uid, status) ==
    /\ user_presence' = UpdateUserPresence(user_presence, uid, status)
    /\ lastApplied' = [lastApplied EXCEPT ![uid] =
          [status |-> status, n |-> IF @.n < 2 THEN @.n + 1 ELSE @.n]]

\* the effect of an instance of the hook runs with an authenticated user
Mount(i) ==
    /\ i \notin mounted
    /\ mounted' = mounted \cup {i}
    /\ Announce("online", 1)
    /\ UNCHANGED <<user_presence, hidden, lastApplied>>
    /\ UNCHANGED <<msgVars, switchVars, otherVars, now, typingInVars, typingOutVars>>

\* the effect's cleanup
Unmount(i) ==
    /\ i \in mounted
    /\ mounted' = mounted \ {i}
    /\ Announce("offline", 1)
    /\ UNCHANGED <<user_presence, hidden, lastApplied>>
    /\ UNCHANGED <<msgVars, switchVars, otherVars, now, typingInVars, typingOutVars>>

\* a visibility handler that announces only when the page is shown again
VisibilityChangeRegainOnly ==
    /\ hidden' = ~hidden
    /\ IF hidden'
       THEN UNCHANGED calls
       ELSE Announce("online", Cardinality(mounted))
    /\ UNCHANGED <<user_presence, mounted, lastApplied>>
    /\ UNCHANGED <<msgVars, switchVars, otherVars, now, typingInVars, typingOutVars>>

\* visibilitychange: the listener of every mounted instance runs
VisibilityChange ==
    /\ hidden' = ~hidden
    /\ IF hidden'
       THEN Announce("offline", Cardinality(mounted))
       ELSE Announce("online", Cardinality(mounted))
    /\ UNCHANGED <<user_presence, mounted, lastApplied>>
    /\ UNCHANGED <<msgVars, switchVars, otherVars, now, typingInVars, typingOutVars>>

\* beforeunload: the listener of every mounted instance runs
BeforeUnload ==
    /\ mounted # {}
    /\ Announce("offline", Cardinality(mounted))
    /\ UNCHANGED <<user_presence, mounted, hidden, lastApplied>>
    /\ UNCHANGED <<msgVars, switchVars, otherVars, now, typingInVars, typingOutVars>>

\* updatePresence, the function the hook hands to its component
UpdatePresence(status) ==
    /\ mounted # {}
    /\ Announce(status, 1)
    /\ UNCHANGED <<user_presence, mounted, hidden, lastApplied>>
    /\ UNCHANGED <<msgVars, switchVars, otherVars, now, typingInVars, typingOutVars>>

\* the store runs a call of this client
ApplyCall(status) ==
    /\ calls[status] > 0
    /\ calls' = [calls EXCEPT ![status] = @ - 1]
    /\ Applied(Me, status)
    /\ UNCHANGED <<mounted, hidden>>
    /\ UNCHANGED <<msgVars, switchVars, otherVars, now, typingInVars, typingOutVars>>

\* a call of this client fails: the error is logged
FailCall(status) ==
    /\ calls[status] > 0
    /\ calls' = [calls EXCEPT ![status] = @ - 1]
    /\ UNCHANGED <<user_presence, mounted, hidden, lastApplied>>
    /\ UNCHANGED <<msgVars, switchVars, otherVars, now, typingInVars, typingOutVars>>

\* the store runs a call of another user's client
PeerAnnounce(uid, status) ==
    /\ Applied(uid, status)
    /\ UNCHANGED <<calls, mounted, hidden>>
    /\ UNCHANGED <<msgVars, switchVars, otherVars, now, typingInVars, typingOutVars>>

\* trigger_user_activity_messages: a user's message insert sets the user
\* online
HandleUserActivity(uid) ==
    /\ Applied(uid, "online")
    /\ UNCHANGED <<calls, mounted, hidden>>
    /\ UNCHANGED <<msgVars, switchVars, otherVars, now, typingInVars, typingOutVars>>

\* ------------------------------------------------------- specification
Sends == 1..MaxSends
Rows == 1..(MaxFeedRows + MaxRemote + 2 * MaxSends)

FetchNext ==
    \/ FetchQueryDone
    \/ FetchSendersDone
    \/ \E kind \in ErrorKinds : FetchQueryError(kind)
    \/ FetchFallbackDone
    \/ FetchFallbackError

SendNext ==
    \/ \E c \in ComposerInputs : HandleSend(c)
    \/ \E i \in Rows : HandleRetryMessage(i)
    \/ \E s \in Sends : ServerApply(s)
    \/ \E s \in Sends : SendReply(s)
    \/ \E s \in Sends, kind \in ErrorKinds : SendError(s, kind)
    \/ \E s \in Sends : RetryMessage(s)
    \/ \E s \in Sends : RetryReply(s)
    \/ \E s \in Sends, kind \in ErrorKinds : RetryError(s, kind)

\* the client with its store, other clients writing, a feed that delivers
\* every notification once.  A handler whose read fails leaves the list as a
\* handler that has not run yet does, so the failing read is left to SpecFeed.
Next ==
    \/ FetchNext
    \/ SendNext
    \/ \E c \in RemoteContents : RemoteInsert(MaxRemote, Other, c)
    \/ \E r \in Rows : MergeInsert(r)

Spec == Init /\ [][Next]_vars

\* the client alone with its store, over a feed that may deliver a
\* notification a second time
NextRedeliver ==
    \/ SendNext
    \/ \E r \in Rows : MergeInsert(r)
    \/ \E r \in Rows : Redeliver(r)

SpecRedeliver == InitLoaded /\ [][NextRedeliver]_vars

\* a client that only reads: the load and the feed of other clients' rows
NextFeed ==
    \/ FetchNext
    \/ \E c \in RemoteContents : RemoteInsert(MaxFeedRows, Other, c)
    \/ \E r \in Rows : MergeInsert(r)
    \/ \E r \in Rows : ReadFail(r)

SpecFeed == Init /\ [][NextFeed]_vars

\* the load over a store that may never answer: what is sure to happen is
\* the 30 s timer that races the primary query
QueryTimerRuns == WF_vars(FetchQueryError("clientTimeout"))

SpecLoad == Init /\ [][NextFeed]_vars /\ QueryTimerRuns

\* the client while the user moves from one conversation to the other
StaleNext ==
    \/ StaleQueryDone
    \/ StaleSendersDone
    \/ \E kind \in ErrorKinds : StaleQueryError(kind)
    \/ StaleFallbackDone
    \/ StaleFallbackError

\* one message from the composer and all that follows from it
SendOnceNext ==
    \/ \E c \in ComposerInputs : nextSend = 0 /\ HandleSend(c)
    \/ \E s \in Sends : ServerApply(s)
    \/ \E s \in Sends : SendReply(s)
    \/ \E s \in Sends, kind \in ErrorKinds : SendError(s, kind)
    \/ \E s \in Sends : RetryMessage(s)
    \/ \E s \in Sends : RetryReply(s)
    \/ \E s \in Sends, kind \in ErrorKinds : RetryError(s, kind)

NextSwitch ==
    \/ SwitchChat
    \/ FetchNext
    \/ StaleNext
    \/ SendOnceNext
    \/ \E c \in RemoteContents : RemoteInsert(MaxRemote, Other, c)
    \/ \E r \in Rows : MergeInsert(r)

SpecSwitch == Init /\ [][NextSwitch]_vars

\* the typing set under the signals of the conversation's participants
NextTypingIn ==
    \/ \E u \in Users, t \in BOOLEAN : ReceiveTyping(u, t)
    \/ ExpireTyping
    \/ Tick

SpecTypingIn == Init /\ [][NextTypingIn]_vars

\* the user composing: keystrokes, stops and the idle timer
NextTypingOut ==
    \/ HandleTyping
    \/ StopTyping
    \/ IdleTimeout
    \/ Tick

SpecTypingOut == Init /\ [][NextTypingOut]_vars

\* the presence hook, the page and the presence table
NextPresence ==
    \/ \E i \in Instances : Mount(i)
    \/ \E i \in Instances : Unmount(i)
    \/ VisibilityChange
    \/ BeforeUnload
    \/ \E st \in PresenceStatuses : UpdatePresence(st)
    \/ \E st \in PresenceStatuses : ApplyCall(st)
    \/ \E st \in PresenceStatuses : FailCall(st)
    \/ \E u \in Announcers \ {Me}, st \in PresenceStatuses :
          PeerAnnounce(u, st)
    \/ \E u \in Announcers : HandleUserActivity(u)

SpecPresence == InitPresence /\ [][NextPresence]_vars

\* a client that only reads, subscribed to every change of the rows
Changes == 1..MaxChanges

NextChanges ==
    \/ \E c \in RemoteContents : RemoteInsert(MaxStored, Other, c)
    \/ \E r \in Rows : MergeInsert(r)
    \/ \E r \in Rows, c \in UpdatedContents : RemoteUpdate(r, c)
    \/ \E r \in Rows : RemoteDelete(r)
    \/ \E c \in Changes, reads \in BOOLEAN : UpdateHandler(c, reads)
    \/ \E c \in Changes : DeleteHandler(c)

SpecChanges == InitLoaded /\ [][NextChanges]_vars

\* the tables under the requests of any principal
NextPolicy ==
    \/ \E uid \in Principals, chat \in {ChatA, ChatB}, sender \in Writers,
          c \in RemoteContents : InsertMessage(uid, chat, sender, c)
    \/ \E uid \in Principals, chat \in {ChatA, ChatB},
          members \in SUBSET Writers : CreateChat(uid, chat, members)
    \/ \E uid \in Principals, chat \in {ChatA, ChatB},
          members \in SUBSET Writers : UpdateChat(uid, chat, members)

SpecPolicy == InitPolicy /\ [][NextPolicy]_vars

\* the conversation list under the messages of both conversations
NextChats ==
    \/ \E chat \in {ChatA, ChatB}, sender \in Writers, c \in ChatContents :
          InsertIntoChat(chat, sender, c)
    \/ \E r \in Rows : HandleMessageInsert(r)
    \/ FetchChats
    \/ FetchChatsQueryDone
    \/ FetchChatsDone
    \/ FetchChatsError

SpecChats == InitLoaded /\ [][NextChats]_vars

\* the profile under the user's updates of the username
NextProfile ==
    \/ \E name \in Usernames : UpdateProfile(name)
    \/ \E outcome \in CheckOutcomes : CheckDone(outcome)
    \/ StoreUpdate
    \/ UpdateReply
    \/ UpdateFails
    \/ \E u \in Writers \ {Me}, name \in Usernames : PeerRename(u, name)

SpecProfile == InitLoaded /\ [][NextProfile]_vars

\* the indicator given any typing list, and the list changing under it
InitIndicator ==
    /\ LoadedChat
    /\ RestIdle
    /\ typingProp \in TypingLists
    /\ indicator = Unrendered

NextIndicator ==
    \/ RenderIndicator
    \/ \E u \in Typers : TyperJoins(u)
    \/ \E u \in Typers : TyperLeaves(u.id)

SpecIndicator == InitIndicator /\ [][NextIndicator]_vars

\* a peer composing, its signals delivered without loss or delay
NextPeer ==
    \/ PeerHandleTyping
    \/ PeerIdleTimeout
    \/ ExpireTyping
    \/ PeerTick

SpecPeer == Init /\ [][NextPeer]_vars

\* the presence map under changes of the presence rows
NextMap ==
    \/ PresenceEffect
    \/ \E u \in Announcers, st \in PresenceStatuses : PresenceChange(u, st)
    \/ FetchPresenceRead
    \/ FetchPresenceDone
    \/ FetchPresenceError
    \/ PresenceEvent

SpecMap == InitLoaded /\ [][NextMap]_vars

\* two clients that start direct conversations
NextCreate ==
    \/ \E u \in Creators, o \in Users : HandleCreateChat(u, o)
    \/ \E u \in Creators : CreateSelectReply(u)
    \/ \E u \in Creators : CreateSelectError(u)
    \/ \E u \in Creators : CreateInsertReply(u)
    \/ \E u \in Creators : CreateInsertError(u)

SpecCreate == InitLoaded /\ [][NextCreate]_vars

\* the reactions of one message, toggled by the local user
NextReactions ==
    \/ \E e \in Emojis : ToggleReaction(e)
    \/ \E i \in 1..MaxToggles : ReactionApply(i)
    \/ \E p \in Peers, e \in Emojis : PeerReaction(p, e)
    \/ ReactionEvent
    \/ FetchReactionsDone
    \/ FetchReactionsError

SpecReactions == InitLoaded /\ [][NextReactions]_vars

\* the conversation view opened, switched and closed
NextView ==
    \/ \E chat \in {ChatA, ChatB} : OpenView(chat)
    \/ \E usr \in {Me, NoUser} : AuthEvent(usr)
    \/ \E chat \in {ChatA, ChatB} : SelectChat(chat)
    \/ CloseView

SpecView == InitLoaded /\ [][NextView]_vars

\* the hook from its first render on, called with any content
CallInputs == {<<>>, <<Space>>, <<"yo", Space>>}

NextGuard ==
    \/ AuthResolved
    \/ \E c \in CallInputs : SendMessageCall(c)
    \/ FetchNext
    \/ \E s \in Sends : ServerApply(s)
    \/ \E s \in Sends : SendReply(s)
    \/ \E s \in Sends, kind \in ErrorKinds : SendError(s, kind)

SpecGuard == InitUnready /\ [][NextGuard]_vars

\* the client alone with a store that may never answer: what is sure to
\* happen is what the client's own timers do, the 30 s race of the first
\* request and the 2000 ms retry timer
TimersRun ==
    \A s \in Sends :
        /\ WF_vars(SendError(s, "clientTimeout"))
        /\ WF_vars(RetryMessage(s))

SpecTimeout == InitLoaded /\ [][SendNext]_vars /\ TimersRun

\* ----------------------------------------------------------- properties
HasId(list, id) == \E i \in DOMAIN list : list[i].id = id

CountIds(list, ids) == Cardinality({i \in DOMAIN list : list[i].id \in ids})

TempId(s) == OptimisticId(s)
FailId(s) == FailedId(OptimisticId(s))

\* C1: the identifiers of the visible list are pairwise distinct in every
\* reachable state.
C1_IdsDistinct ==
    \A i, j \in DOMAIN messages :
        i # j => messages[i].id # messages[j].id

\* C2: a send whose create request has succeeded (its row is stored) is shown
\* by exactly one entry, the provisional one or the confirmed one, before and
\* after its reply is processed.
C2_ExactlyOneEntry ==
    \A s \in Sends :
        (\/ sends[s].pc = "awaitFirst" /\ sends[s].req = "applied"
         \/ sends[s].pc = "confirmed")
        => CountIds(messages, {TempId(s), ServerId(sends[s].row)}) = 1

\* C3: once the reply of a successful automatic retry has been processed, the
\* send is shown under the server-assigned identifier with its original
\* trimmed content: no entry keeps its provisional or failed identifier, and
\* the entry under the server identifier carries no marker.
C3_RetryConfirmedEntry ==
    \A s \in Sends :
        sends[s].pc = "retryConfirmed" =>
            \A i \in DOMAIN messages :
                messages[i].id \in {TempId(s), FailId(s), ServerId(sends[s].row)}
                  => /\ messages[i].id = ServerId(sends[s].row)
                     /\ messages[i].content = sends[s].content
                     /\ messages[i].content = rows[sends[s].row].content

C3_Witness ==
    \E s \in Sends :
        /\ sends[s].pc = "retryConfirmed"
        /\ notif[sends[s].row] = "pending"
        /\ \E i \in DOMAIN messages :
              /\ messages[i].id = ServerId(sends[s].row)
              /\ messages[i].content = sends[s].content

\* C4: a send whose first request and automatic retry both failed shows the
\* permanent-failure marker followed by its original content, has no retry
\* scheduled and no request in flight, and no send ever issues more than two
\* create requests.
C4_PermanentFailure ==
    \A s \in Sends :
        /\ sends[s].reqs <= 2
        /\ sends[s].pc = "permFailed" =>
              /\ sends[s].timer = 0
              /\ sends[s].req = "none"
              /\ sends[s].reqs = 2
              /\ \A i \in DOMAIN messages :
                    messages[i].id \in {TempId(s), FailId(s)} =>
                        /\ messages[i].id = FailId(s)
                        /\ messages[i].content
                             = PermanentMarker \o sends[s].content

C4_Witness ==
    \E s \in Sends :
        /\ sends[s].pc = "permFailed"
        /\ sends[s].reqs = 2
        /\ \E i \in DOMAIN messages :
              /\ messages[i].id = FailId(s)
              /\ messages[i].content = PermanentMarker \o <<"yo">>

\* C5: whenever the first create request fails by a connectivity failure
\* (unreachable service or timeout), the provisional entry gets the failure
\* marker and one automatic retry is scheduled with the 2000 ms delay.
C5_ConnectivityFailureRetries ==
    [][\A s \in Sends, kind \in {"clientTimeout", "network"} :
          SendError(s, kind) =>
              /\ sends'[s].timer = RetryDelayMs
              /\ (HasId(messages, TempId(s)) =>
                    \E i \in DOMAIN messages' :
                        /\ messages'[i].id = FailId(s)
                        /\ messages'[i].content
                             = FailedMarker \o sends[s].content)]_vars

\* C6: a permanently failed entry can still be retried by hand: the tap on
\* it issues a new submit (as long as the view is shown and sends are left).
IsPermanentlyFailed(msg) ==
    /\ StartsWith(msg.id.pre, "failed-")
    /\ Len(msg.content) >= 2
    /\ SubSeq(msg.content, 1, 2) = PermanentMarker

C6_PermanentStillRetryable ==
    \A i \in DOMAIN messages :
        (IsPermanentlyFailed(messages[i]) /\ ~loading /\ nextSend < MaxSends)
            => ENABLED HandleRetryMessage(i)

\* C7: a manual retry submits the content of the original send, without any
\* failure marker.
C7_ManualRetrySameContent ==
    [][\A i \in Rows :
          HandleRetryMessage(i) =>
              sends'[nextSend'].content = sends[messages[i].id.n].content]_vars

\* C8: merging the notification of one send's row leaves the provisional
\* entry of every other send that still awaits its own outcome in the list.
C8_NoCoalescing ==
    [][\A r \in Rows, s \in Sends :
          (/\ MergeInsert(r)
           /\ sends[s].pc = "awaitFirst"
           /\ sends[s].row # r
           /\ HasId(messages, TempId(s)))
          => HasId(messages', TempId(s))]_vars

\* C9: merging an insert-notification a second time, when its identifier is
\* in the list, leaves the list unchanged.
C9_MergeIdempotent ==
    [][\A r \in Rows :
          (/\ MergeInsert(r)
           /\ notif[r] = "again"
           /\ HasId(messages, rows[r].id))
          => messages' = messages]_vars

\* C10: whatever the order in which the notifications of other clients'
\* rows are merged, the visible list is ascending by creation timestamp.
C10_SortedByCreation ==
    \A i, j \in DOMAIN messages :
        i < j => messages[i].created_at <= messages[j].created_at

\* the conversation an entry belongs to: that of its row in the store, or,
\* for an entry no row stands behind yet, that of the send that made it
EntryChat(msg) ==
    IF msg.id.pre = <<>> THEN rows[msg.id.n].chat_id ELSE sends[msg.id.n].chat

\* C11: every entry of the visible list belongs to the open conversation,
\* also after the conversation was switched while results were in flight.
C11_EntriesOfOpenChat ==
    \A i \in DOMAIN messages : EntryChat(messages[i]) = chatId

\* C12: a confirmation, by the reply or by the send's own insert-notification,
\* puts the confirmed entry where the provisional one was and leaves every
\* other entry where it was.
C12_ConfirmInPlace ==
    [][\A s \in Sends, i \in Rows :
          (/\ i \in DOMAIN messages
           /\ messages[i].id = TempId(s)
           /\ sends[s].pc = "awaitFirst"
           /\ sends[s].req = "applied"
           /\ (SendReply(s) \/ MergeInsert(sends[s].row)))
          => /\ Len(messages') = Len(messages)
             /\ messages'[i].id = ServerId(sends[s].row)
             /\ \A j \in DOMAIN messages :
                   j # i => messages'[j] = messages[j]]_vars

\* entry b of the next list shows the logical message entry a shows now:
\* the same identifier, or the failed or confirmed form of a's send
Continues(a, b) ==
    \/ b.id = a.id
    \/ /\ a.id.pre # <<>>
       /\ \/ b.id.pre # <<>> /\ b.id.n = a.id.n
          \/ b.id = ServerId(sends'[a.id.n].row)

\* C13: while the conversation stays open (and no delete is notified), no
\* step removes a logical message from the list: every entry has an entry
\* continuing it in the next list.
C13_NothingRemoved ==
    [][\A i \in DOMAIN messages :
          \E j \in DOMAIN messages' : Continues(messages[i], messages'[j])]_vars

\* C14: every submitted message eventually leaves the in-flight states
\* (provisional, retrying), even when the store never replies.
C14_LeavesInFlight ==
    \A s \in Sends :
        (sends[s].pc \in {"awaitFirst", "awaitRetry"})
            ~> (sends[s].pc \in {"confirmed", "failed", "retryConfirmed",
                                 "permFailed"})

NoTimerDue == ~ExpiryDue /\ ~IdleDue

\* C15: a participant added to the typing set by a typing=true signal at T,
\* with no later signal, is absent from the set from T + 3000 ms on (once
\* the timer due at that instant has run).
C15_ExpiresAfter3000 ==
    \A p \in Peers :
        (/\ peerLog[p].addedAt >= 0
         /\ ~peerLog[p].later
         /\ now >= peerLog[p].addedAt + ExpiryMs
         /\ NoTimerDue)
        => ~InTyping(typingUsers, p)

C15_Witness ==
    \E p \in Peers :
        /\ peerLog[p].addedAt >= 0
        /\ ~peerLog[p].later
        /\ now = peerLog[p].addedAt + ExpiryMs
        /\ NoTimerDue
        /\ ~InTyping(typingUsers, p)

\* C16: a participant whose latest signal is typing=true, received at R, is
\* in the typing set at every instant before R + 3000 ms.
C16_RefreshKeepsEntry ==
    \A p \in Peers :
        (/\ peerLog[p].lastKind = "true"
         /\ now < peerLog[p].lastTrueAt + ExpiryMs)
        => InTyping(typingUsers, p)

\* C17: any two outgoing typing=true signals are at least 500 ms apart.
C17_TrueSignalsApart ==
    outLog.prevTrue >= 0 => outLog.lastTrue - outLog.prevTrue >= ThrottleMs

C17_Witness ==
    /\ outLog.prevTrue >= 0
    /\ outLog.lastTrue - outLog.prevTrue = ThrottleMs

PresenceRowsOf(uid) ==
    {i \in DOMAIN user_presence : user_presence[i].user_id = uid}

\* C19: the presence table holds at most one record per user, and once an
\* announcement of a user has been applied, the user's record carries the
\* status of the announcement applied last.
C19_OneRecordLastWriteWins ==
    \A u \in Users :
        /\ Cardinality(PresenceRowsOf(u)) <= 1
        /\ lastApplied[u].n > 0 =>
              \E i \in PresenceRowsOf(u) :
                  user_presence[i].status = lastApplied[u].status

C19_Witness ==
    \E u \in Users :
        /\ lastApplied[u].n = 2
        /\ Cardinality(PresenceRowsOf(u)) = 1
        /\ \E i \in PresenceRowsOf(u) :
              user_presence[i].status = lastApplied[u].status
        /\ Len(user_presence) > 1

\* C20: the mount of the hook issues an 'online' announcement, every loss
\* of visibility and every unload an 'offline' one, every regain of
\* visibility an 'online' one (one per mounted instance of the hook).
C20_AnnouncementsFollowPage ==
    [][/\ \A i \in Instances :
             Mount(i) => calls'["online"] = calls["online"] + 1
       /\ (VisibilityChange /\ mounted # {} /\ ~hidden)
             => /\ hidden'
                /\ calls'["offline"]
                     = calls["offline"] + Cardinality(mounted)
       /\ (VisibilityChange /\ mounted # {} /\ hidden)
             => /\ ~hidden'
                /\ calls'["online"]
                     = calls["online"] + Cardinality(mounted)
       /\ BeforeUnload
             => calls'["offline"]
                  = calls["offline"] + Cardinality(mounted)]_vars

C20_Witness ==
    /\ mounted = Instances
    /\ hidden
    /\ calls["offline"] = Cardinality(mounted)
    /\ calls["online"] = 0

\* C21: a sendMessage call whose content is empty after trimming, or made
\* while the hook has no conversation or no user, leaves the visible list,
\* the sends and the store as they were: no entry is added and no create
\* request is issued.
Refused(call) ==
    Trim(call.content) = <<>> \/ call.chat = NoChat \/ call.user = NoUser

C21_RefusedCallChangesNothing ==
    [][(callLog'.n # callLog.n /\ Refused(callLog'))
          => /\ messages' = messages
             /\ sends' = sends
             /\ nextSend' = nextSend
             /\ rows' = rows]_vars

\* a blank call returned while the list held an entry
C21_Witness ==
    /\ callLog.returned > 0
    /\ callLog.user = Me
    /\ callLog.chat = ChatA
    /\ Trim(callLog.content) = <<>>
    /\ callLog.content # <<>>
    /\ messages # <<>>

Others(list, id) ==
    LET Keep(msg) == msg.id # id
    IN  SelectSeq(list, Keep)

Handled(c, event, st) ==
    /\ c \in DOMAIN changes
    /\ changes[c].event = event
    /\ changes[c].st = "pending"
    /\ changes'[c].st = st

\* C22: when the handler of a DELETE notification for identifier X has run,
\* no entry of the list has identifier X and the entries with another
\* identifier are the same, in the same order; if no entry had identifier X
\* the list is as it was.
C22_DeleteRemovesOnlyX ==
    [][\A c \in Changes :
          Handled(c, "DELETE", "merged") =>
              LET X == ServerId(changes[c].row)
              IN  /\ ~HasId(messages', X)
                  /\ Others(messages', X) = Others(messages, X)
                  /\ (~HasId(messages, X) => messages' = messages)]_vars

\* a DELETE notification removed an entry and left others in the list
C22_Witness ==
    \E c \in DOMAIN changes :
        /\ changes[c].event = "DELETE"
        /\ changes[c].st = "merged"
        /\ changes[c].hit
        /\ Len(messages) >= 1

\* C23: when the handler of an UPDATE notification for identifier X has
\* run with the row it read, the list has the same length, the entries with
\* identifier X are that row, and every other entry is as it was, so the
\* list is unchanged (nothing is appended) if no entry had identifier X;
\* when the read returned nothing the list is as it was.
C23_UpdateReplacesInPlace ==
    [][\A c \in Changes :
          /\ Handled(c, "UPDATE", "merged") =>
                LET X == ServerId(changes[c].row)
                    row == Selected(rows[changes[c].row])
                IN  /\ Len(messages') = Len(messages)
                    /\ \A i \in DOMAIN messages :
                           messages'[i] = IF messages[i].id = X THEN row
                                          ELSE messages[i]
          /\ Handled(c, "UPDATE", "nothing") => messages' = messages]_vars

\* an UPDATE notification replaced an entry that is not the last one
C23_Witness ==
    \E c \in DOMAIN changes :
        /\ changes[c].event = "UPDATE"
        /\ changes[c].st = "merged"
        /\ changes[c].hit
        /\ \E i \in DOMAIN messages :
               /\ i < Len(messages)
               /\ messages[i].id = ServerId(changes[c].row)
               /\ messages[i].content \in UpdatedContents

C26_InsertsBySenderAndMember ==
    [][inserts'.n # inserts.n =>
          LET a == inserts'
              permitted == /\ a.by = a.sender
                           /\ a.by \in participants[a.chat]
          IN  /\ a.accepted <=> permitted
              /\ a.accepted =>
                    /\ Len(rows') = Len(rows) + 1
                    /\ rows'[Len(rows')].sender_id = a.by
                    /\ rows'[Len(rows')].chat_id = a.chat
                    /\ SubSeq(rows', 1, Len(rows)) = rows
              /\ ~a.accepted => rows' = rows]_vars

\* a row was stored for a participant, and an INSERT of a principal who had
\* left the conversation was refused after it
C26_Witness ==
    /\ Len(rows) >= 1
    /\ inserts.refused >= 1
    /\ ~inserts.accepted
    /\ inserts.by = inserts.sender
    /\ inserts.by # NoUser
    /\ inserts.by = rows[Len(rows)].sender_id
    /\ inserts.chat = rows[Len(rows)].chat_id

SortedNewestFirst(list) ==
    \A i, j \in DOMAIN list : i < j => list[i].updated_at >= list[j].updated_at

\* C27: when useChats has handled the INSERT notification of a message,
\* the conversation list is in descending order of updated_at, and the
\* entry of the message's conversation has the message's content as
\* last_message and the message's created_at as updated_at.
C27_ListSortedAfterInsert ==
    [][\A r \in Rows :
          (r \in DOMAIN chatNotif /\ chatNotif[r] = "pending"
              /\ chatNotif'[r] = "done")
          => /\ SortedNewestFirst(chats')
             /\ Len(chats') = Len(chats)
             /\ \A i \in DOMAIN chats' :
                    chats'[i].id = rows[r].chat_id =>
                        /\ chats'[i].last_message = rows[r].content
                        /\ chats'[i].updated_at = rows[r].created_at]_vars

\* a message moved its conversation from the bottom of the list to the top
C27_Witness ==
    /\ Len(chats) = 2
    /\ chats[1].id = ChatA
    /\ chats[1].last_message = <<"ok">>
    /\ chats[2].last_message = <<"yo">>
    /\ \A q \in DOMAIN chatNotif : chatNotif[q] = "done"

\* C28: an updateProfile call asking for a username that another user
\* holds issues no update request, leaves the local profile as it was and
\* does not end in success.
C28_TakenUsernameNotWritten ==
    updateOp.held =>
        /\ updateOp.reqs = 0
        /\ profile = updateOp.before
        /\ updateOp.pc # "done"

\* the users of a typing list after its first
OtherTypers(list) == {list[i].id : i \in 2..Len(list)}

\* C29: what the indicator shows is decided by the typing list: nothing
\* for none, "A is typing" for one, "A and B are typing" for two in that
\* order, and "A and <n-1> others are typing" for n >= 3 with A first.
C29_IndicatorText ==
    indicator # Unrendered =>
        LET n == Len(typingProp)
        IN  /\ n = 0 => indicator = Nothing
            /\ n = 1 => indicator = typingProp[1].name \o " is typing"
            /\ n = 2 => indicator = typingProp[1].name \o " and "
                            \o typingProp[2].name \o " are typing"
            /\ n >= 3 => indicator = typingProp[1].name \o " and "
                            \o ToString(Cardinality(OtherTypers(typingProp)))
                            \o " others are typing"

C29_Witness ==
    /\ Len(typingProp) = 3
    /\ typingProp[1].name = "Ann"
    /\ indicator = "Ann and 2 others are typing"

\* the state of the message submitted as send s, as the list shows it
MessageState(list, all, s) ==
    LET Marked(marker) ==
            \E i \in DOMAIN list :
                /\ list[i].id = FailId(s)
                /\ Len(list[i].content) >= Len(marker)
                /\ SubSeq(list[i].content, 1, Len(marker)) = marker
    IN  IF all[s].pc = "unused" THEN "none"
        ELSE IF HasId(list, TempId(s)) THEN "provisional"
        ELSE IF Marked(FailedMarker) THEN "failed"
        ELSE IF Marked(RetryingMarker) THEN "retrying"
        ELSE IF Marked(PermanentMarker) THEN "permanently failed"
        ELSE "confirmed"

\* C30: a submitted message moves only along provisional -> confirmed or
\* provisional -> failed -> retrying -> (confirmed | permanently failed),
\* a confirmed or permanently failed one stays as it is, and a second
\* create request is issued only for a message that shows the failure
\* marker, by the timer set to the retry delay.
C30_ForwardOnly ==
    [][\A s \in Sends :
          LET before == MessageState(messages, sends, s)
              after == MessageState(messages', sends', s)
              Forward ==
                  {<<"none", "provisional">>, <<"provisional", "confirmed">>,
                   <<"provisional", "failed">>, <<"failed", "retrying">>,
                   <<"retrying", "confirmed">>,
                   <<"retrying", "permanently failed">>}
          IN  /\ before # after => <<before, after>> \in Forward
              /\ sends'[s].reqs > sends[s].reqs /\ sends[s].reqs >= 1
                    => before = "failed" /\ sends[s].timer = RetryDelayMs]_vars

\* C31: a send creates at most one row: the rows of the local user with a
\* send's content in its conversation are no more than the sends submitted
\* with that content there, also after a client timeout and the retry.
C31_OneRowPerSend ==
    \A s \in Sends :
        sends[s].pc # "unused" =>
            Cardinality({r \in DOMAIN rows :
                            /\ rows[r].sender_id = Me
                            /\ rows[r].chat_id = sends[s].chat
                            /\ rows[r].content = sends[s].content})
              <= Cardinality({t \in Sends :
                                 /\ sends[t].pc # "unused"
                                 /\ sends[t].chat = sends[s].chat
                                 /\ sends[t].content = sends[s].content})

\* the subscriptions the view holds
Held == {h \in DOMAIN channels : channels[h].state = "subscribed"}

\* C32: the view holds at most one message subscription, the one of the
\* conversation it shows, and none when it is closed or has no
\* conversation or user.
C32_OneSubscription ==
    /\ Cardinality(Held) <= 1
    /\ \A h \in Held :
          /\ view.mounted
          /\ view.user # NoUser
          /\ channels[h].chat = view.chatId
    /\ ~view.mounted => Held = {}

\* the conversation was changed under the open view: the first handle is
\* released and the second is held
C32_Witness ==
    /\ Len(channels) >= 2
    /\ channels[1].chat = ChatA
    /\ channels[2].chat = ChatB
    /\ view.mounted
    /\ Held = {2}

\* C33: while Layout's instance of the hook stays mounted and the page is
\* visible, a step issues an 'offline' announcement only if it is the
\* unload of the page (or the user setting that status through
\* updatePresence): the unmount of another instance issues none.
C33_NoOfflineWhileShown ==
    [][("Layout" \in mounted /\ "Layout" \in mounted' /\ ~hidden'
          /\ calls'["offline"] > calls["offline"])
        => BeforeUnload \/ UpdatePresence("offline")]_vars

\* C34: an entry of the local presence map is never replaced by an older
\* record of the user, nor dropped: updated_at of an entry does not go
\* down, also when the full read completes after an event was applied.
C34_MapNeverGoesBack ==
    [][\A u \in Announcers :
          presenceData[u] # NoPresence =>
              /\ presenceData'[u] # NoPresence
              /\ presenceData'[u].updated_at >= presenceData[u].updated_at]_vars

\* C35: every composing burst is announced: when the typing flag goes
\* back to false, a typing=true signal was emitted at one of the
\* keystrokes of the burst that ends.
C35_BurstAnnounced ==
    [][(isTyping /\ ~isTyping') => outLog.announced]_vars

\* C36: while the peer composes without a pause of 1000 ms, in a burst
\* that was announced, the peer is in the local typing set.
C36_StaysWhileComposing ==
    (peer.isTyping /\ peer.announced) => InTyping(typingUsers, "p1")

\* C37: the typing set never holds the local user and never holds a
\* participant twice.
C37_NoSelfNoDuplicates ==
    /\ ~InTyping(typingUsers, Me)
    /\ \A i, j \in DOMAIN typingUsers :
          typingUsers[i] = typingUsers[j] => i = j

\* a peer is in the set after a typing=true signal that found it there
C37_Witness ==
    \E p \in Peers :
        /\ peerLog[p].later
        /\ peerLog[p].lastKind = "true"
        /\ InTyping(typingUsers, p)

\* C38: no two direct conversations have the same pair of participants.
C38_OneDirectChatPerPair ==
    \A i, j \in DOMAIN chatTable :
        (/\ ~chatTable[i].is_group
         /\ ~chatTable[j].is_group
         /\ i \in DirectChats(chatTable, chatTable[j].participants[1],
                               chatTable[j].participants[2]))
        => i = j

\* C39: once two toggleReaction calls for an emoji have been applied, the
\* user's reaction is stored exactly if it was before the first call, and
\* the store never has two rows of one user with one emoji.
C39_ToggleInvolution ==
    /\ \A e \in Emojis :
          (toggleLog[e].n = 2 /\ reactionOps = <<>>)
          => (HasReaction(reactionStore, Me, e) <=> toggleLog[e].before)
    /\ \A i, j \in DOMAIN reactionStore :
          reactionStore[i] = reactionStore[j] => i = j

\* C40: while the conversation is loading, the load is waiting on a read
\* that the client's own timer ends, so that loading becomes false also
\* when no reply comes.
C40_LoadingEndsWithoutReply ==
    loading => ENABLED FetchQueryError("clientTimeout")

====
